---------------------------- MODULE Spec2Model ----------------------------
(***************************************************************************)
(* EasyLeaf LogParser (src/extension/content/controllers/LogParser.js).    *)
(*                                                                         *)
(* A log text is a sequence of UTF-16 code units, each written as a        *)
(* one-character string ("\n", "\r", "!", "a", ...) or, for the invisible  *)
(* code units, by its code point name ("U+200B", "U+2028", "U+FEFF").      *)
(* Offsets are 0-based as in JavaScript: offset p stands before text[p+1]. *)
(***************************************************************************)
EXTENDS Integers, Sequences, FiniteSets, TLC

VARIABLES lastIndex, called, logText, result, execs, entryIndex, broken,
          cache, cachedFor, calls, fetched,
          content, contextArgs, context,
          lineElements, activeErrorLine, shown

\* The LogParser and its caller.
parserVars ==
  <<lastIndex, called, logText, result, execs, entryIndex, broken>>

\* The ApiClient (src/extension/content/services/ApiClient.js) and the
\* explainError calls made on it.
apiVars == <<cache, cachedFor, calls, fetched>>

\* The editor page: the document EditorController reads and the line
\* elements ErrorOverlayManager decorates.
editorVars ==
  <<content, contextArgs, context, lineElements, activeErrorLine, shown>>

vars == <<parserVars, apiVars, editorVars>>

-----------------------------------------------------------------------------
(* Character classes of the ECMAScript regular expressions in the source.  *)

\* LineTerminator: what "." excludes and what "^"/"$" look at under /m.
LineTerminators == {"\n", "\r", "U+2028", "U+2029"}

\* \s and String.prototype.trim: WhiteSpace plus LineTerminator.
WhiteSpace == {" ", "\t", "U+FEFF"} \cup LineTerminators

Digits == {"0", "1", "2", "3", "4", "5", "6", "7", "8", "9"}

\* The class [\u200B-\u200D\u2028\u2029\u202A-\u202E\uFEFF], removed by parseAll only.
InvisibleChars ==
  {"U+200B", "U+200C", "U+200D", "U+2028", "U+2029",
   "U+202A", "U+202B", "U+202C", "U+202D", "U+202E", "U+FEFF"}

InClass(cls, ch) ==
  CASE cls = "\\s"      -> ch \in WhiteSpace
    [] cls = "\\d"      -> ch \in Digits
    [] cls = "[^\\n]"   -> ch # "\n"
    [] cls = "[^:]"     -> ch # ":"
    [] cls = "[\\s\\S]" -> TRUE
    [] cls = "."        -> ch \notin LineTerminators
    [] cls = "\\/"      -> ch = "/"
    [] cls = "\\."      -> ch = "."

-----------------------------------------------------------------------------
(* Regular expressions as node sequences, matched by backtracking in the   *)
(* priority order of ECMAScript: a greedy quantifier tries the longest     *)
(* repetition first, a lazy one the shortest, and the first overall        *)
(* success is the match.                                                   *)

\* A quantifier without an upper bound (+, *, *?).
NoMax == -1

\* The nodes: a literal string, ^, $, the start and the end of capture group
\* g, and a character class under a quantifier {min,max}, greedy or lazy.
Chars(s) == [t |-> "chars", s |-> s]
Lit(c) == Chars(<<c>>)
Bol == [t |-> "bol"]
Eol == [t |-> "eol"]
Open(g) == [t |-> "open", g |-> g]
Close(g) == [t |-> "close", g |-> g]
Rep(cls, min, max, greedy) ==
  [t |-> "rep", cls |-> cls, min |-> min, max |-> max, greedy |-> greedy]

NoCaps == [g \in 1..3 |-> <<0, 0>>]

Fail == [ok |-> FALSE, index |-> 0, end |-> 0, caps |-> NoCaps]

\* "^" with the m flag: at offset 0 or right after a LineTerminator.
AtLineStart(text, pos) == pos = 0 \/ text[pos] \in LineTerminators

\* "$" with the m flag: at the end or right before a LineTerminator.
AtLineEnd(text, pos) == pos = Len(text) \/ text[pos + 1] \in LineTerminators

\* The first offset in lo..hi whose code unit is not in cls, and hi + 1 when
\* there is none (found by halving the range).
RECURSIVE FirstOutside(_, _, _, _)
FirstOutside(cls, text, lo, hi) ==
  IF lo > hi THEN lo
  ELSE IF lo = hi
       THEN IF InClass(cls, text[lo + 1]) THEN hi + 1 ELSE lo
       ELSE LET mid  == (lo + hi) \div 2
                left == FirstOutside(cls, text, lo, mid)
            IN IF left <= mid THEN left
               ELSE FirstOutside(cls, text, mid + 1, hi)

\* How many code units from pos on are in cls, up to max.
RunLen(cls, text, pos, max) ==
  LET hi == IF max = NoMax \/ pos + max > Len(text)
            THEN Len(text) - 1 ELSE pos + max - 1
  IN IF cls = "[\\s\\S]" THEN hi + 1 - pos
     ELSE FirstOutside(cls, text, pos, hi) - pos

\* Whether the rest of the pattern, from node j on, can go on at offset
\* pos: a literal needs its first code unit there and a class that must
\* repeat needs one of its own; the marks of a group consume nothing.
RECURSIVE CanFollow(_, _, _, _)
CanFollow(re, j, text, pos) ==
  IF j > Len(re) THEN TRUE
  ELSE CASE re[j].t \in {"open", "close"} -> CanFollow(re, j + 1, text, pos)
         [] re[j].t = "chars" ->
              pos < Len(text) /\ text[pos + 1] = re[j].s[1]
         [] re[j].t = "rep" /\ re[j].min >= 1 ->
              pos < Len(text) /\ InClass(re[j].cls, text[pos + 1])
         [] OTHER -> TRUE

\* The repetition counts min..run of node j, in ascending order, after
\* which the rest of the pattern can go on.
Counts(re, j, text, pos, min, run) ==
  LET GoesOn(n) == CanFollow(re, j + 1, text, pos + n)
  IN SelectSeq([i \in 1..(run - min + 1) |-> min + i - 1], GoesOn)

\* The offsets from..Len(text), in ascending order, at which a match can
\* begin: a pattern that starts with ^ begins where a line starts.
StartOffsets(re, text, from) ==
  LET CanStart(p) == re[1].t # "bol" \/ AtLineStart(text, p)
  IN SelectSeq([i \in 1..(Len(text) - from + 1) |-> from + i - 1], CanStart)

RECURSIVE MatchNodes(_, _, _, _, _)
RECURSIVE TryDown(_, _, _, _, _, _, _, _)
RECURSIVE TryUp(_, _, _, _, _, _, _, _)

\* The first success among counts[lo..hi], the largest count first.
TryDown(re, j, text, pos, caps, counts, lo, hi) ==
  IF lo > hi THEN Fail
  ELSE IF lo = hi THEN MatchNodes(re, j + 1, text, pos + counts[lo], caps)
  ELSE LET mid   == (lo + hi) \div 2
           upper == TryDown(re, j, text, pos, caps, counts, mid + 1, hi)
       IN IF upper.ok THEN upper
          ELSE TryDown(re, j, text, pos, caps, counts, lo, mid)

\* The first success among counts[lo..hi], the smallest count first.
TryUp(re, j, text, pos, caps, counts, lo, hi) ==
  IF lo > hi THEN Fail
  ELSE IF lo = hi THEN MatchNodes(re, j + 1, text, pos + counts[lo], caps)
  ELSE LET mid   == (lo + hi) \div 2
           lower == TryUp(re, j, text, pos, caps, counts, lo, mid)
       IN IF lower.ok THEN lower
          ELSE TryUp(re, j, text, pos, caps, counts, mid + 1, hi)

\* The match of nodes j.. of re at offset pos, or Fail.
MatchNodes(re, j, text, pos, caps) ==
  CASE j > Len(re) ->
         [ok |-> TRUE, index |-> 0, end |-> pos, caps |-> caps]
    [] j <= Len(re) /\ re[j].t = "chars" ->
         IF pos + Len(re[j].s) <= Len(text)
            /\ \A i \in 1..Len(re[j].s) : text[pos + i] = re[j].s[i]
         THEN MatchNodes(re, j + 1, text, pos + Len(re[j].s), caps) ELSE Fail
    [] j <= Len(re) /\ re[j].t = "bol" ->
         IF AtLineStart(text, pos)
         THEN MatchNodes(re, j + 1, text, pos, caps) ELSE Fail
    [] j <= Len(re) /\ re[j].t = "eol" ->
         IF AtLineEnd(text, pos)
         THEN MatchNodes(re, j + 1, text, pos, caps) ELSE Fail
    [] j <= Len(re) /\ re[j].t = "open" ->
         MatchNodes(re, j + 1, text, pos, [caps EXCEPT ![re[j].g] = <<pos, pos>>])
    [] j <= Len(re) /\ re[j].t = "close" ->
         MatchNodes(re, j + 1, text, pos, [caps EXCEPT ![re[j].g][2] = pos])
    \* the match for the list of counts, computed once
    [] j <= Len(re) /\ re[j].t = "rep" ->
         CHOOSE m \in
           { IF re[j].greedy
             THEN TryDown(re, j, text, pos, caps, counts, 1, Len(counts))
             ELSE TryUp(re, j, text, pos, caps, counts, 1, Len(counts)) :
             counts \in {Counts(re, j, text, pos, re[j].min,
                                RunLen(re[j].cls, text, pos, re[j].max))} } : TRUE

\* The first match that begins at one of offsets[lo..hi], or Fail.
RECURSIVE SearchFrom(_, _, _, _, _)
SearchFrom(re, text, offsets, lo, hi) ==
  IF lo > hi THEN Fail
  ELSE IF lo = hi
       THEN LET r == MatchNodes(re, 1, text, offsets[lo], NoCaps)
            IN IF r.ok THEN [r EXCEPT !.index = offsets[lo]] ELSE Fail
       ELSE LET mid  == (lo + hi) \div 2
                left == SearchFrom(re, text, offsets, lo, mid)
            IN IF left.ok THEN left
               ELSE SearchFrom(re, text, offsets, mid + 1, hi)

\* regex.exec(text) with regex.lastIndex = from.
RegexExec(re, text, from) ==
  IF from > Len(text) THEN Fail
  ELSE LET offsets == StartOffsets(re, text, from)
       IN SearchFrom(re, text, offsets, 1, Len(offsets))

\* Mutant of LastIndexAfter: the next exec starts one past the start of the
\* match, so that a rule's matches may overlap.
LastIndexPastStart(m) == IF m.ok THEN m.index + 1 ELSE 0

\* lastIndex after exec: the end of the match, or 0 when there is none.
LastIndexAfter(m) == IF m.ok THEN m.end ELSE 0

\* text.substring(a, b) for offsets a <= b.
Substring(text, a, b) == SubSeq(text, a + 1, b)

MatchText(text, m) == Substring(text, m.index, m.end)

Group(text, m, g) == Substring(text, m.caps[g][1], m.caps[g][2])

-----------------------------------------------------------------------------
(* JavaScript values and string functions used by the parser.              *)

\* The null stored in a record's line (never a parsed number: \d+ has no sign).
Null == -1

\* What parse returns when no rule yields a record.
NullResult == [null |-> TRUE]

\* The argument of a call: null, undefined or a string of code units.
JsNull == [kind |-> "null"]
JsUndefined == [kind |-> "undefined"]
Str(chars) == [kind |-> "string", chars |-> chars]

\* Mutant of Falsy: the empty string passes the guard.
FalsyNullOnly(arg) == arg.kind # "string"

\* !logText
Falsy(arg) == arg.kind # "string" \/ arg.chars = <<>>

\* String.prototype.trim
RECURSIVE TrimStart(_)
TrimStart(s) ==
  IF s # <<>> /\ Head(s) \in WhiteSpace THEN TrimStart(Tail(s)) ELSE s

RECURSIVE TrimEnd(_)
TrimEnd(s) ==
  IF s # <<>> /\ s[Len(s)] \in WhiteSpace
  THEN TrimEnd(SubSeq(s, 1, Len(s) - 1)) ELSE s

Trim(s) == TrimEnd(TrimStart(s))

DigitValue(d) ==
  CASE d = "0" -> 0 [] d = "1" -> 1 [] d = "2" -> 2 [] d = "3" -> 3
    [] d = "4" -> 4 [] d = "5" -> 5 [] d = "6" -> 6 [] d = "7" -> 7
    [] d = "8" -> 8 [] d = "9" -> 9

\* parseInt(ds, 10) of a non-empty run of decimal digits.
RECURSIVE ParseInt(_)
ParseInt(ds) ==
  IF ds = <<>> THEN 0
  ELSE 10 * ParseInt(SubSeq(ds, 1, Len(ds) - 1)) + DigitValue(ds[Len(ds)])

DigitChar(v) ==
  CASE v = 0 -> "0" [] v = 1 -> "1" [] v = 2 -> "2" [] v = 3 -> "3"
    [] v = 4 -> "4" [] v = 5 -> "5" [] v = 6 -> "6" [] v = 7 -> "7"
    [] v = 8 -> "8" [] v = 9 -> "9"

\* `${n}` of a non-negative integer.
RECURSIVE NumberToString(_)
NumberToString(n) ==
  IF n < 10 THEN <<DigitChar(n)>>
  ELSE NumberToString(n \div 10) \o <<DigitChar(n % 10)>>

\* s with every "\r" that a "\n" follows left out, from offset lo to hi
\* (the two halves of the range one after the other).
RECURSIVE DropCRBeforeLF(_, _, _)
DropCRBeforeLF(s, lo, hi) ==
  IF lo > hi THEN <<>>
  ELSE IF lo = hi
       THEN IF s[lo] = "\r" /\ lo < Len(s) /\ s[lo + 1] = "\n"
            THEN <<>> ELSE <<s[lo]>>
       ELSE DropCRBeforeLF(s, lo, (lo + hi) \div 2)
            \o DropCRBeforeLF(s, (lo + hi) \div 2 + 1, hi)

\* Mutant of ReplaceCRLF: the text is matched as it came.
ReplaceCRLFNone(s) == s

\* logText.replace(/\r\n/g, '\n')
ReplaceCRLF(s) == DropCRBeforeLF(s, 1, Len(s))

NotInvisible(ch) == ch \notin InvisibleChars

\* .replace(/[\u200B-\u200D\u2028\u2029\u202A-\u202E\uFEFF]/g, '')
StripInvisible(s) == SelectSeq(s, NotInvisible)

-----------------------------------------------------------------------------
(* this.patterns: the five rules, in the order of the array.               *)

LookaheadMax == 500

LatexErrorLit ==
  <<"L", "a", "T", "e", "X", " ", "E", "r", "r", "o", "r", ":">>

OnInputLineLit ==
  <<"o", "n", " ", "i", "n", "p", "u", "t", " ", "l", "i", "n", "e">>

RunawayLit ==
  <<"R", "u", "n", "a", "w", "a", "y", " ", "a", "r", "g", "u", "m", "e",
    "n", "t", "?">>

EmergencyLit ==
  <<"E", "m", "e", "r", "g", "e", "n", "c", "y", " ", "s", "t", "o", "p",
    ".">>

\* A rule 1 whose lookahead has no bound.
GenericBangRegexUnbounded ==
  <<Bol, Lit("!"), Rep("\\s", 1, NoMax, TRUE),
    Open(1), Rep("[^\\n]", 1, NoMax, TRUE), Close(1),
    Rep("[\\s\\S]", 0, NoMax, FALSE),
    Lit("l"), Lit("."), Open(2), Rep("\\d", 1, NoMax, TRUE), Close(2)>>

\* /^!\s+([^\n]+)(?:[\s\S]{0,500}?)l\.(\d+)/gm
GenericBangRegex ==
  <<Bol, Lit("!"), Rep("\\s", 1, NoMax, TRUE),
    Open(1), Rep("[^\\n]", 1, NoMax, TRUE), Close(1),
    Rep("[\\s\\S]", 0, LookaheadMax, FALSE),
    Lit("l"), Lit("."), Open(2), Rep("\\d", 1, NoMax, TRUE), Close(2)>>

\* /^(\.\/?[^:]+):(\d+):\s+(.*)$/gm
FileLineRegex ==
  <<Bol, Open(1), Lit("."), Rep("\\/", 0, 1, TRUE),
    Rep("[^:]", 1, NoMax, TRUE), Close(1),
    Lit(":"), Open(2), Rep("\\d", 1, NoMax, TRUE), Close(2), Lit(":"),
    Rep("\\s", 1, NoMax, TRUE), Open(3), Rep(".", 0, NoMax, TRUE), Close(3),
    Eol>>

\* Mutant of LatexErrorOnLineRegex: the regex without its ^ anchor.
LatexErrorOnLineRegexUnanchored ==
  <<Chars(LatexErrorLit)>>
  \o <<Rep("\\s", 1, NoMax, TRUE), Open(1), Rep(".", 0, NoMax, FALSE),
       Close(1), Rep("\\s", 1, NoMax, TRUE)>>
  \o <<Chars(OnInputLineLit)>>
  \o <<Rep("\\s", 1, NoMax, TRUE), Open(2), Rep("\\d", 1, NoMax, TRUE),
       Close(2), Rep("\\.", 0, 1, TRUE)>>

\* /^LaTeX Error:\s+(.*?)\s+on input line\s+(\d+)\.?/gm
LatexErrorOnLineRegex ==
  <<Bol, Chars(LatexErrorLit)>>
  \o <<Rep("\\s", 1, NoMax, TRUE), Open(1), Rep(".", 0, NoMax, FALSE),
       Close(1), Rep("\\s", 1, NoMax, TRUE)>>
  \o <<Chars(OnInputLineLit)>>
  \o <<Rep("\\s", 1, NoMax, TRUE), Open(2), Rep("\\d", 1, NoMax, TRUE),
       Close(2), Rep("\\.", 0, 1, TRUE)>>

\* /^Runaway argument\?[\s\S]*?!.*$/gm
RunawayArgumentRegex ==
  <<Bol, Chars(RunawayLit)>>
  \o <<Rep("[\\s\\S]", 0, NoMax, FALSE), Lit("!"),
       Rep(".", 0, NoMax, TRUE), Eol>>

\* /^!\s+Emergency stop\./gm
EmergencyStopRegex ==
  <<Bol, Lit("!"), Rep("\\s", 1, NoMax, TRUE), Chars(EmergencyLit)>>

RunawayMessage ==
  <<"R", "u", "n", "a", "w", "a", "y", " ", "a", "r", "g", "u", "m", "e",
    "n", "t", " ", "(", "l", "i", "k", "e", "l", "y", " ", "a", "n", " ",
    "u", "n", "c", "l", "o", "s", "e", "d", " ", "c", "u", "r", "l", "y",
    " ", "b", "r", "a", "c", "e", " ", "'", "}", "'", ")">>

EmergencyMessage ==
  <<"E", "m", "e", "r", "g", "e", "n", "c", "y", " ", "s", "t", "o", "p",
    " ", "(", "c", "o", "m", "p", "i", "l", "a", "t", "i", "o", "n", " ",
    "a", "b", "o", "r", "t", "e", "d", " ", "f", "a", "t", "a", "l", "l",
    "y", ")">>

\* Mutant of ExtractGenericBang: the message runs up to the l.N marker.
ExtractGenericBangWholeSpan(text, match) ==
  [message  |-> Trim(Substring(text, match.caps[1][1], match.caps[2][1] - 2)),
   line     |-> ParseInt(Group(text, match, 2)),
   fullText |-> MatchText(text, match),
   type     |-> "error"]

\* patterns[0].extract
ExtractGenericBang(text, match) ==
  [message  |-> Trim(Group(text, match, 1)),
   line     |-> ParseInt(Group(text, match, 2)),
   fullText |-> MatchText(text, match),
   type     |-> "error"]

\* patterns[1].extract
ExtractFileLine(text, match) ==
  [message  |-> Trim(Group(text, match, 3)),
   line     |-> ParseInt(Group(text, match, 2)),
   file     |-> Trim(Group(text, match, 1)),
   fullText |-> MatchText(text, match),
   type     |-> "error"]

\* patterns[2].extract
ExtractLatexErrorOnLine(text, match) ==
  [message  |-> Trim(Group(text, match, 1)),
   line     |-> ParseInt(Group(text, match, 2)),
   fullText |-> MatchText(text, match),
   type     |-> "error"]

\* Mutant of ExtractRunawayArgument: the line is 0 instead of null.
ExtractRunawayArgumentLineZero(text, match) ==
  [message  |-> RunawayMessage,
   line     |-> 0,
   fullText |-> MatchText(text, match),
   type     |-> "error"]

\* patterns[3].extract
ExtractRunawayArgument(text, match) ==
  [message  |-> RunawayMessage,
   line     |-> Null,
   fullText |-> MatchText(text, match),
   type     |-> "error"]

\* Mutant of ExtractEmergencyStop: the record is classified like the others.
ExtractEmergencyStopAsError(text, match) ==
  [message  |-> EmergencyMessage,
   line     |-> Null,
   fullText |-> MatchText(text, match),
   type     |-> "error"]

\* patterns[4].extract
ExtractEmergencyStop(text, match) ==
  [message  |-> EmergencyMessage,
   line     |-> Null,
   fullText |-> MatchText(text, match),
   type     |-> "critical"]

\* The regexes of this.patterns, in array order.
patterns ==
  <<GenericBangRegex, FileLineRegex, LatexErrorOnLineRegex,
    RunawayArgumentRegex, EmergencyStopRegex>>

NumPatterns == Len(patterns)

\* pattern.extract(match) of the k-th pattern.
Extract(k, text, match) ==
  CASE k = 1 -> ExtractGenericBang(text, match)
    [] k = 2 -> ExtractFileLine(text, match)
    [] k = 3 -> ExtractLatexErrorOnLine(text, match)
    [] k = 4 -> ExtractRunawayArgument(text, match)
    [] k = 5 -> ExtractEmergencyStop(text, match)

-----------------------------------------------------------------------------
(* parse(logText)                                                          *)

\* Mutant of ResetLastIndex: the cursor stays where the last exec left it.
KeepLastIndex(li, k) == li

\* pattern.regex.lastIndex = 0
ResetLastIndex(li, k) == [li EXCEPT ![k] = 0]

\* Mutant of ValidMessage: the validation of the extracted message left out.
ValidMessageUnchecked(message) == TRUE

\* if (error.message): a non-empty string is truthy.
ValidMessage(message) == message # <<>>

\* Mutant of ParseFrom: the loop does not return at the first valid record and
\* a later rule's record replaces it.
RECURSIVE ParseFromLastWins(_, _, _, _)
ParseFromLastWins(k, cleanText, li, n) ==
  IF k > NumPatterns THEN [value |-> NullResult, lastIndex |-> li, execs |-> n]
  ELSE LET start == [li EXCEPT ![k] = 0]
           match == RegexExec(patterns[k], cleanText, start[k])
           after == [start EXCEPT ![k] = LastIndexAfter(match)]
           rest  == ParseFromLastWins(k + 1, cleanText, after, n + 1)
       IN IF rest.value = NullResult /\ match.ok
             /\ Extract(k, cleanText, match).message # <<>>
          THEN [rest EXCEPT !.value = Extract(k, cleanText, match)]
          ELSE rest

\* Mutant of ParseFrom: a generic record instead of null when no rule yields one.
RECURSIVE ParseFromFallback(_, _, _, _)
ParseFromFallback(k, cleanText, li, n) ==
  IF k > NumPatterns
  THEN [value |-> [message |-> <<"?">>, line |-> Null, fullText |-> cleanText,
                   type |-> "error"],
        lastIndex |-> li, execs |-> n]
  ELSE LET start == [li EXCEPT ![k] = 0]
           match == RegexExec(patterns[k], cleanText, start[k])
           after == [start EXCEPT ![k] = LastIndexAfter(match)]
       IN IF match.ok /\ Extract(k, cleanText, match).message # <<>>
          THEN [value     |-> Extract(k, cleanText, match),
                lastIndex |-> after,
                execs     |-> n + 1]
          ELSE ParseFromFallback(k + 1, cleanText, after, n + 1)

\* The for loop of parse from the k-th pattern on; li holds every regex's
\* lastIndex and n counts the exec calls made so far.
RECURSIVE ParseFrom(_, _, _, _)
ParseFrom(k, cleanText, li, n) ==
  IF k > NumPatterns THEN [value |-> NullResult, lastIndex |-> li, execs |-> n]
  ELSE LET start == ResetLastIndex(li, k)
           match == RegexExec(patterns[k], cleanText, start[k])
           after == [start EXCEPT ![k] = LastIndexAfter(match)]
       IN IF match.ok /\ ValidMessage(Extract(k, cleanText, match).message)
          THEN [value     |-> Extract(k, cleanText, match),
                lastIndex |-> after,
                execs     |-> n + 1]
          ELSE ParseFrom(k + 1, cleanText, after, n + 1)

\* parse(logText) on a parser whose regexes have the cursors li.
ParseCall(arg, li) ==
  IF Falsy(arg) THEN [value |-> NullResult, lastIndex |-> li, execs |-> 0]
  ELSE ParseFrom(1, ReplaceCRLF(arg.chars), li, 0)

-----------------------------------------------------------------------------
(* parseAll(logText)                                                       *)

KeyPrefixLen == 50

NullKeyPrefix == <<"n", "u", "l", "l", ":">>

\* error.line ? ... : ...  (null and 0 are falsy)
TruthyLine(line) == line # Null /\ line # 0

\* message.substring(0, 50)
MessagePrefix(message) ==
  SubSeq(message, 1, IF Len(message) < KeyPrefixLen THEN Len(message)
                     ELSE KeyPrefixLen)

\* The deduplication key of parseAll.
DedupKey(error) ==
  IF TruthyLine(error.line)
  THEN NumberToString(error.line) \o <<":">> \o MessagePrefix(error.message)
  ELSE NullKeyPrefix \o error.message

\* Mutant of ScanPattern: one exec per pattern (an if in place of the while).
ScanPatternOnce(k, cleanText, li, errors, seen, n) ==
  LET match == RegexExec(patterns[k], cleanText, li[k])
      after == [li EXCEPT ![k] = LastIndexAfter(match)]
      error == Extract(k, cleanText, match)
      fresh == match.ok /\ error.message # <<>> /\ DedupKey(error) \notin seen
  IN [errors    |-> IF fresh THEN Append(errors, error) ELSE errors,
      seen      |-> IF fresh THEN seen \cup {DedupKey(error)} ELSE seen,
      lastIndex |-> after,
      execs     |-> n + 1]

\* Mutant of ScanPattern: a match with an empty message ends the rule's loop
\* (a break in place of the fall through to the next exec).
RECURSIVE ScanPatternStopsAtEmpty(_, _, _, _, _, _)
ScanPatternStopsAtEmpty(k, cleanText, li, errors, seen, n) ==
  LET match == RegexExec(patterns[k], cleanText, li[k])
      after == [li EXCEPT ![k] = LastIndexAfter(match)]
  IN IF ~match.ok \/ Extract(k, cleanText, match).message = <<>>
     THEN [errors |-> errors, seen |-> seen, lastIndex |-> after,
           execs |-> n + 1]
     ELSE LET error == Extract(k, cleanText, match)
              fresh == DedupKey(error) \notin seen
          IN ScanPatternStopsAtEmpty(k, cleanText, after,
                         IF fresh THEN Append(errors, error) ELSE errors,
                         IF fresh THEN seen \cup {DedupKey(error)} ELSE seen,
                         n + 1)

\* The while loop of parseAll for the k-th pattern: exec until null.
RECURSIVE ScanPattern(_, _, _, _, _, _)
ScanPattern(k, cleanText, li, errors, seen, n) ==
  LET match == RegexExec(patterns[k], cleanText, li[k])
      after == [li EXCEPT ![k] = LastIndexAfter(match)]
  IN IF ~match.ok
     THEN [errors |-> errors, seen |-> seen, lastIndex |-> after,
           execs |-> n + 1]
     ELSE LET error == Extract(k, cleanText, match)
              fresh == ValidMessage(error.message)
                       /\ DedupKey(error) \notin seen
          IN ScanPattern(k, cleanText, after,
                         IF fresh THEN Append(errors, error) ELSE errors,
                         IF fresh THEN seen \cup {DedupKey(error)} ELSE seen,
                         n + 1)

\* The for loop of parseAll from the k-th pattern on.
RECURSIVE ScanFrom(_, _, _, _, _, _)
ScanFrom(k, cleanText, li, errors, seen, n) ==
  IF k > NumPatterns
  THEN [errors |-> errors, seen |-> seen, lastIndex |-> li, execs |-> n]
  ELSE LET r == ScanPattern(k, cleanText, ResetLastIndex(li, k),
                            errors, seen, n)
       \* the while loop of the rule has called exec at least once
       IN CASE r.execs > n ->
            ScanFrom(k + 1, cleanText, r.lastIndex, r.errors, r.seen, r.execs)

\* Mutant of CompareErrors: the null checks left out, so that null counts as
\* 0 in the subtraction.
CompareErrorsNoNullCheck(a, b) ==
  (IF a.line = Null THEN 0 ELSE a.line) - (IF b.line = Null THEN 0 ELSE b.line)

\* The comparator handed to errors.sort.
CompareErrors(a, b) ==
  IF a.line = Null /\ b.line = Null THEN 0
  ELSE IF a.line = Null THEN 1
  ELSE IF b.line = Null THEN -1
  ELSE a.line - b.line

\* Mutant of InsertSorted: an unstable sort, x goes before its equals.
RECURSIVE InsertSortedBeforeEquals(_, _)
InsertSortedBeforeEquals(sorted, x) ==
  IF sorted = <<>> THEN <<x>>
  ELSE IF CompareErrors(sorted[Len(sorted)], x) >= 0
       THEN Append(InsertSortedBeforeEquals(
                     SubSeq(sorted, 1, Len(sorted) - 1), x),
                   sorted[Len(sorted)])
       ELSE Append(sorted, x)

\* x inserted into a sorted sequence, after every element that is not
\* greater: Array.prototype.sort is stable.
RECURSIVE InsertSorted(_, _)
InsertSorted(sorted, x) ==
  IF sorted = <<>> THEN <<x>>
  ELSE IF CompareErrors(sorted[Len(sorted)], x) > 0
       THEN Append(InsertSorted(SubSeq(sorted, 1, Len(sorted) - 1), x),
                   sorted[Len(sorted)])
       ELSE Append(sorted, x)

\* errors.sort((a, b) => ...)
RECURSIVE SortErrors(_)
SortErrors(errors) ==
  IF errors = <<>> THEN <<>>
  ELSE InsertSorted(SortErrors(SubSeq(errors, 1, Len(errors) - 1)),
                    errors[Len(errors)])

\* The two replace calls that make cleanText in parseAll.
CleanAll(chars) == StripInvisible(ReplaceCRLF(chars))

\* parseAll(logText) on a parser whose regexes have the cursors li.
ParseAllCall(arg, li) ==
  IF Falsy(arg) THEN [value |-> <<>>, lastIndex |-> li, execs |-> 0]
  ELSE LET r == ScanFrom(1, CleanAll(arg.chars), li, <<>>, {}, 0)
       IN [value |-> SortErrors(r.errors), lastIndex |-> r.lastIndex,
           execs |-> r.execs]

-----------------------------------------------------------------------------
(* The parser object and its caller.  lastIndex is the cursor of each      *)
(* pattern's global regex, the only state the parser keeps between calls.  *)
(* logText is the argument the caller holds; called, result and execs say  *)
(* which entry point ran last on it, what it returned and how many times   *)
(* it called exec; entryIndex keeps the cursors as that call found them.   *)
(* broken is the set of the rules of this.patterns whose extract function  *)
(* throws: none of the rules the constructor installs.                     *)

\* new LogParser(): every regex literal starts with lastIndex 0.
FreshCursors == [k \in 1..NumPatterns |-> 0]

\* The caller obtains the next log text to hand to the parser.
NewLog(arg) ==
  /\ called # "none"
  /\ logText' = arg
  /\ called' = "none"
  /\ result' = NullResult
  /\ execs' = 0
  /\ entryIndex' = lastIndex
  /\ UNCHANGED <<lastIndex, broken, apiVars, editorVars>>

\* parser.parse(logText)
Parse ==
  /\ called = "none"
  /\ \E r \in {ParseCall(logText, lastIndex)} :
       /\ lastIndex' = r.lastIndex
       /\ result' = r.value
       /\ execs' = r.execs
  /\ called' = "parse"
  /\ entryIndex' = lastIndex
  /\ UNCHANGED <<logText, broken, apiVars, editorVars>>

\* parser.parseAll(logText)
ParseAll ==
  /\ called = "none"
  /\ \E r \in {ParseAllCall(logText, lastIndex)} :
       /\ lastIndex' = r.lastIndex
       /\ result' = r.value
       /\ execs' = r.execs
  /\ called' = "parseAll"
  /\ entryIndex' = lastIndex
  /\ UNCHANGED <<logText, broken, apiVars, editorVars>>

-----------------------------------------------------------------------------
(* Log texts: fragments joined by line feeds.                              *)

RECURSIVE JoinLines(_)
JoinLines(ls) ==
  IF ls = <<>> THEN <<>>
  ELSE IF Len(ls) = 1 THEN ls[1]
  ELSE ls[1] \o <<"\n">> \o JoinLines(Tail(ls))

\* Every text made of 1..n fragments of lib.
TextsOf(lib, n) ==
  {JoinLines(ls) : ls \in UNION {[1..m -> lib] : m \in 1..n}}

\* new ApiClient(): an empty cache, and no explainError call made yet.
NoRequests ==
  /\ cache = {}
  /\ cachedFor = {}
  /\ calls = <<>>
  /\ fetched = 0

\* No call made on the editor or on the overlay.
NoArgs == [none |-> TRUE]

\* A page without an editor: getContent() finds nothing, no line element
\* is rendered, new ErrorOverlayManager() has activeErrorLine null.
NoEditor ==
  /\ content = JsNull
  /\ contextArgs = NoArgs
  /\ context = NullResult
  /\ lineElements = <<>>
  /\ activeErrorLine = Null
  /\ shown = NoArgs

\* A fresh parser about to be called on arg.
FirstCall(args) ==
  /\ lastIndex = FreshCursors
  /\ called = "none"
  /\ logText \in args
  /\ result = NullResult
  /\ execs = 0
  /\ entryIndex = FreshCursors
  /\ NoRequests
  /\ NoEditor
  /\ broken = {}

MaxLines == 2

LogFragments ==
  { <<"!", " ", "a">>,
    <<"l", ".", "2">>,
    <<"!", " ", "b", " ", "l", ".", "1">>,
    <<".", "/", "f", ":", "1", ":", " ", "c">>,
    LatexErrorLit \o <<" ", "d", " ">> \o OnInputLineLit \o <<" ", "3", ".">>,
    RunawayLit,
    <<"!", " ">> \o EmergencyLit,
    <<"o", "k">>,
    <<"!", " ", " ", "l", ".", "0">>,
    <<".", "/", "f", ":", "2", ":", " ">> }

LogTexts == TextsOf(LogFragments, MaxLines)

InitLog == FirstCall({Str(t) : t \in LogTexts})

\* One call of either entry point on the text.
NextLog == Parse \/ ParseAll

SpecLog == InitLog /\ [][NextLog]_vars

-----------------------------------------------------------------------------
(* Properties of parse.                                                    *)

\* The text parse matches against.
ParseText == ReplaceCRLF(logText.chars)

\* The first match of the k-th rule in text, scanning from offset 0.
FirstMatch(k, text) == RegexExec(patterns[k], text, 0)

\* The k-th rule's first match exists and carries a non-empty message.
FirstMatchValid(k, text) ==
  /\ FirstMatch(k, text).ok
  /\ Extract(k, text, FirstMatch(k, text)).message # <<>>

\* The rules whose first match yields a record with a non-empty message.
ValidRules(text) == {k \in 1..NumPatterns : FirstMatchValid(k, text)}

Least(S) == CHOOSE k \in S : \A j \in S : k <= j

ParseReturned == called = "parse" /\ ~Falsy(logText)

\* C1: parse returns the record of the first rule, in the order GenericBang,
\* FileLine, LatexErrorOnLine, RunawayArgument, EmergencyStop, whose first
\* match in the text has a non-empty message, and null when there is none; so
\* no record of a rule is returned while a rule before it has such a match,
\* wherever in the text the two matches start.
C1_PriorityOrder ==
  ParseReturned =>
    LET text == ParseText
        valid == ValidRules(text)
    IN IF valid = {} THEN result = NullResult
       ELSE result = Extract(Least(valid), text, FirstMatch(Least(valid), text))

\* C1 witness: parse returned the record of one rule although the first match
\* of a later rule, with a non-empty message too, starts earlier in the text.
C1_Witness ==
  /\ ParseReturned
  /\ \E k \in ValidRules(ParseText) :
       /\ result = Extract(k, ParseText, FirstMatch(k, ParseText))
       /\ \E j \in ValidRules(ParseText) :
            /\ j > k
            /\ FirstMatch(j, ParseText).index < FirstMatch(k, ParseText).index

\* C2: what parse returns is null or a record whose message is non-empty,
\* has a character that is not white space, and is trimmed.
C2_MessageNotBlank ==
  (called = "parse" /\ result # NullResult) =>
    /\ result.message # <<>>
    /\ \E i \in 1..Len(result.message) : result.message[i] \notin WhiteSpace
    /\ Trim(result.message) = result.message

\* C2 witness: parse returned a record after passing over a rule whose first
\* match has only white space for its message.
C2_Witness ==
  /\ ParseReturned
  /\ result # NullResult
  /\ \E k \in 1..NumPatterns :
       /\ FirstMatch(k, ParseText).ok
       /\ ~FirstMatchValid(k, ParseText)
       /\ Group(ParseText, FirstMatch(k, ParseText), IF k = 2 THEN 3 ELSE 1)
            # <<>>


\* The k-th rule matches at some start offset of text.
MatchesAnywhere(k, text) ==
  \E i \in 0..Len(text) : MatchNodes(patterns[k], 1, text, i, NoCaps).ok

\* The text the entry point that ran matches against.
ScannedText ==
  IF called = "parseAll" THEN CleanAll(logText.chars) ELSE ParseText

\* The last call ran on a non-empty text in which no rule matches anywhere.
CleanLogCall ==
  /\ called \in {"parse", "parseAll"}
  /\ ~Falsy(logText)
  /\ \A k \in 1..NumPatterns : ~MatchesAnywhere(k, ScannedText)

\* C8: for a non-empty text in which none of the five rules matches at any
\* offset, parse returns null and parseAll returns the empty sequence.
C8_CleanLogNoResult ==
  CleanLogCall =>
    IF called = "parse" THEN result = NullResult ELSE result = <<>>

\* C8 witness: parseAll returned nothing for a text of several lines, one of
\* them starting a Runaway argument that no "!" follows.
C8_Witness ==
  /\ CleanLogCall
  /\ called = "parseAll"
  /\ result = <<>>
  /\ \E i \in 1..Len(logText.chars) : logText.chars[i] = "?"
  /\ \E i \in 1..Len(logText.chars) : logText.chars[i] = "\n"


-----------------------------------------------------------------------------
(* Properties of parseAll.                                                 *)

MaxScanLines == 3

\* Two "!" errors with their l.N markers, a file:line diagnostic with the
\* key of the first, a Runaway argument line and an Emergency stop line.
ScanFragments ==
  { <<"!", " ", "a", "\n", "l", ".", "1", "0">>,
    <<"!", " ", "b", "\n", "l", ".", "2", "0">>,
    <<".", "/", "f", ":", "1", "0", ":", " ", "a">>,
    RunawayLit,
    <<"!", " ">> \o EmergencyLit }

ScanTexts == TextsOf(ScanFragments, MaxScanLines)

InitScan == FirstCall({Str(t) : t \in ScanTexts})

SpecScan == InitScan /\ [][NextLog]_vars

ParseAllReturned == called = "parseAll" /\ ~Falsy(logText)

\* The successive matches of the k-th rule in text: the first one at or
\* after offset from, then the first one at or after its end, and so on.
RECURSIVE MatchChain(_, _, _)
MatchChain(k, text, from) ==
  LET starts == {i \in from..Len(text) :
                   MatchNodes(patterns[k], 1, text, i, NoCaps).ok}
      first  == CHOOSE i \in starts : \A j \in starts : i <= j
      match  == [MatchNodes(patterns[k], 1, text, first, NoCaps)
                   EXCEPT !.index = first]
  IN IF starts = {} THEN <<>>
     ELSE <<match>> \o MatchChain(k, text, match.end)

\* The records of the k-th rule's successive matches, empty messages left out.
ChainRecords(k, text) ==
  LET chain == MatchChain(k, text, 0)
      recs  == [i \in 1..Len(chain) |-> Extract(k, text, chain[i])]
      Valid(r) == r.message # <<>>
  IN SelectSeq(recs, Valid)

\* What parseAll found before sorting: rule by rule, match by match.
Discovered ==
  ScanFrom(1, CleanAll(logText.chars), FreshCursors, <<>>, {}, 0).errors

Elements(seq) == {seq[i] : i \in 1..Len(seq)}

\* The key of the claims: the line and the first 50 characters of the message
\* when the line is not null, and null and the whole message when it is.
RecordKey(r) ==
  IF r.line # Null
  THEN <<NumberToString(r.line), MessagePrefix(r.message)>>
  ELSE <<NullKeyPrefix, r.message>>

\* The log holds exactly two rule-1 errors, the first at line 10 and the
\* second at line 20.
TwoErrorLog ==
  LET recs == ChainRecords(1, ScannedText)
  IN Len(recs) = 2 /\ recs[1].line = 10 /\ recs[2].line = 20

\* C9: parseAll holds exactly the records of every rule's successive matches
\* (each match sought from the end of the rule's previous one) that have a
\* non-empty message, up to the deduplication by key; and for a log with two
\* rule-1 errors at lines 10 and 20, parse returns the line-10 record and
\* parseAll holds both, line 10 before line 20.
C9_ScanAllMatches ==
  /\ ParseAllReturned =>
       /\ \A r \in Elements(result) :
            \E k \in 1..NumPatterns : r \in Elements(ChainRecords(k, ScannedText))
       /\ \A k \in 1..NumPatterns :
            \A c \in Elements(ChainRecords(k, ScannedText)) :
              \E r \in Elements(result) : DedupKey(r) = DedupKey(c)
  /\ (ParseReturned /\ TwoErrorLog) =>
       result = ChainRecords(1, ScannedText)[1]
  /\ (ParseAllReturned /\ TwoErrorLog) =>
       \E i, j \in 1..Len(result) :
         /\ i < j
         /\ result[i] = ChainRecords(1, ScannedText)[1]
         /\ result[j] = ChainRecords(1, ScannedText)[2]

\* C9 witness: parseAll returned the two records of a log with errors at
\* lines 10 and 20, found by the same rule.
C9_Witness ==
  /\ ParseAllReturned
  /\ TwoErrorLog
  /\ Len(result) >= 2
  /\ result[1].line = 10
  /\ result[2].line = 20

\* C4: in what parseAll returns, adjacent records with non-null lines are in
\* ascending order of line and no record with a null line stands before one
\* with a non-null line.
C4_SortedByLine ==
  ParseAllReturned =>
    /\ \A i \in 1..(Len(result) - 1) :
         (result[i].line # Null /\ result[i + 1].line # Null)
           => result[i].line <= result[i + 1].line
    /\ \A i, j \in 1..Len(result) :
         (result[i].line = Null /\ result[j].line # Null) => j < i

\* C4 witness: parseAll returned records in another order than it found them,
\* ending with a record without a line.
C4_Witness ==
  /\ ParseAllReturned
  /\ Len(result) >= 3
  /\ result # Discovered
  /\ result[Len(result)].line = Null

NullLine(r) == r.line = Null

\* C5: the records with a null line stand in what parseAll returns in the
\* order in which the scan found them.
C5_NullLinesKeepOrder ==
  ParseAllReturned =>
    SelectSeq(result, NullLine) = SelectSeq(Discovered, NullLine)

\* C5 witness: parseAll returned two records with a null line, after one
\* with a line.
C5_Witness ==
  /\ ParseAllReturned
  /\ Len(SelectSeq(result, NullLine)) >= 2
  /\ Len(result) >= 3


-----------------------------------------------------------------------------
(* Deduplication in parseAll.                                              *)

MaxDedupLines == 2

\* A message one character longer than the key's prefix, ending with last.
LongMessage(last) == [i \in 1..KeyPrefixLen |-> "a"] \o <<last>>

\* A "!" error with the message and, on the next line, the marker l.<digit>.
BangError(message, digit) ==
  <<"!", " ">> \o message \o <<"\n", "l", ".", digit>>

\* Errors at line 0 and at line 7 whose messages differ past the 50th
\* character only, a short error at line 0 and a line without an error.
DedupFragments ==
  { BangError(LongMessage("b"), "0"),
    BangError(LongMessage("c"), "0"),
    BangError(LongMessage("b"), "7"),
    BangError(LongMessage("c"), "7"),
    BangError(<<"a">>, "0"),
    <<"o", "k">> }

DedupTexts == TextsOf(DedupFragments, MaxDedupLines)

InitDedup == FirstCall({Str(t) : t \in DedupTexts})

SpecDedup == InitDedup /\ [][NextLog]_vars

\* C3: no two records of what parseAll returns have the same key, the key
\* being the line and the first 50 characters of the message when the line
\* is not null, and null and the whole message when it is.
C3_NoDuplicateKeys ==
  ParseAllReturned =>
    \A i, j \in 1..Len(result) :
      RecordKey(result[i]) = RecordKey(result[j]) => i = j

\* What the code keeps distinct: the keys as it computes them, with line 0
\* keyed like a null line.
DedupKeysDistinct ==
  ParseAllReturned =>
    \A i, j \in 1..Len(result) :
      DedupKey(result[i]) = DedupKey(result[j]) => i = j

\* parseAll dropped a line-7 record whose key another one already had.
DedupDropped ==
  /\ ParseAllReturned
  /\ Len(result) = 1
  /\ result[1].line = 7
  /\ Len(ChainRecords(1, ScannedText)) = 2


-----------------------------------------------------------------------------
(* Line endings.                                                           *)

MaxCRLFLines == 3

\* Lines with and without a carriage return at their end: joined by line
\* feeds they give texts with LF and with CRLF line endings.
CRLFFragments ==
  { <<"!", " ", "a">>,
    <<"!", " ", "a", "\r">>,
    <<"l", ".", "5">>,
    <<".", "/", "f", ":", "1", ":", " ", "c">>,
    <<"o", "k">>,
    <<"\r">> }

CRLFTexts == TextsOf(CRLFFragments, MaxCRLFLines)

InitCRLF == FirstCall({Str(t) : t \in CRLFTexts})

SpecCRLF == InitCRLF /\ [][NextLog]_vars

\* The text with every line feed written as carriage return, line feed.
RECURSIVE ToCRLF(_)
ToCRLF(s) ==
  IF s = <<>> THEN <<>>
  ELSE (IF Head(s) = "\n" THEN <<"\r", "\n">> ELSE <<Head(s)>>)
       \o ToCRLF(Tail(s))

\* No line feed of the text follows a carriage return.
LFOnly(s) == \A i \in 2..Len(s) : ~(s[i - 1] = "\r" /\ s[i] = "\n")

\* What a call's result says of line, message and fullText.
Reported(r) == [line |-> r.line, message |-> r.message, fullText |-> r.fullText]

ReportedAll(rs) == [i \in 1..Len(rs) |-> Reported(rs[i])]

\* The result of the call that ran and the result of the same call, on a
\* fresh parser, on the text with every LF written as CRLF report the same.
SameAsCRLF ==
  LET crlf == Str(ToCRLF(logText.chars))
  IN IF called = "parse"
     THEN LET other == ParseCall(crlf, FreshCursors).value
          IN IF result = NullResult \/ other = NullResult
             THEN result = other
             ELSE Reported(result) = Reported(other)
     ELSE ReportedAll(result)
            = ReportedAll(ParseAllCall(crlf, FreshCursors).value)

\* C10 as stated: for every text, parse and parseAll report the same line,
\* message and fullText on the text and on the text with every LF written
\* as CRLF.
C10_AnyTextSameAsCRLF ==
  (called \in {"parse", "parseAll"} /\ ~Falsy(logText)) => SameAsCRLF

\* C10: for every text in which no LF follows a CR, parse and parseAll report
\* the same line, message and fullText on the text and on the text with every
\* LF written as CRLF.
C10_LFTextSameAsCRLF ==
  (called \in {"parse", "parseAll"} /\ ~Falsy(logText)
     /\ LFOnly(logText.chars)) => SameAsCRLF

\* C10 witness: parse returned a record whose fullText runs over a line
\* ending, for a text of LF line endings that differs from its CRLF form.
C10_Witness ==
  /\ ParseReturned
  /\ LFOnly(logText.chars)
  /\ ToCRLF(logText.chars) # logText.chars
  /\ result # NullResult
  /\ result.line = 5
  /\ \E i \in 1..Len(result.fullText) : result.fullText[i] = "\n"


-----------------------------------------------------------------------------
(* One parser called again and again.                                      *)

MaxCallLines == 2

CallFragments ==
  { <<"!", " ", "b", " ", "l", ".", "1">>,
    <<".", "/", "f", ":", "1", ":", " ", "c">>,
    <<"!", " ">> \o EmergencyLit }

CallTexts == TextsOf(CallFragments, MaxCallLines)

\* What a caller may hand to parse and parseAll.
Inputs == {JsNull, JsUndefined, Str(<<>>)} \cup {Str(t) : t \in CallTexts}

Init == FirstCall(Inputs)

Next ==
  \/ \E arg \in Inputs : NewLog(arg)
  \/ Parse
  \/ ParseAll

Spec == Init /\ [][Next]_vars

\* The last call's result on a freshly constructed parser.
FreshResult ==
  IF called = "parse" THEN ParseCall(logText, FreshCursors).value
  ELSE ParseAllCall(logText, FreshCursors).value

\* C6: whatever calls the parser served before, parse(t) and parseAll(t)
\* return what they return on a freshly constructed parser.
C6_SameAsFreshParser ==
  called \in {"parse", "parseAll"} => result = FreshResult

\* C6 witness: a call found a record with a rule whose cursor an earlier call
\* had left beyond the start of the match.
C6_Witness ==
  /\ called \in {"parse", "parseAll"}
  /\ ~Falsy(logText)
  /\ \E k \in 1..NumPatterns :
       /\ FirstMatchValid(k, ScannedText)
       /\ entryIndex[k] > FirstMatch(k, ScannedText).index
       /\ IF called = "parse"
          THEN result = Extract(k, ScannedText, FirstMatch(k, ScannedText))
          ELSE Extract(k, ScannedText, FirstMatch(k, ScannedText))
                 \in Elements(result)

\* The inputs of C7: null, undefined and the empty string.
EmptyInputs == {JsNull, JsUndefined, Str(<<>>)}

\* C7: for null, undefined and the empty string parse returns null and
\* parseAll the empty sequence, no exec is called and no cursor changes.
C7_FalsyInputShortCircuits ==
  (called \in {"parse", "parseAll"} /\ logText \in EmptyInputs) =>
    /\ result = (IF called = "parse" THEN NullResult ELSE <<>>)
    /\ execs = 0
    /\ lastIndex = entryIndex

\* C7 witness: parseAll returned the empty sequence for undefined and left
\* in place a cursor that an earlier call had moved.
C7_Witness ==
  /\ called = "parseAll"
  /\ logText = JsUndefined
  /\ result = <<>>
  /\ execs = 0
  /\ lastIndex # FreshCursors
  /\ lastIndex = entryIndex


-----------------------------------------------------------------------------
(* Invisible characters.                                                   *)

MaxPieces == 5

\* Every text made by writing 1..n pieces of lib one after the other.
RECURSIVE Concat(_)
Concat(ps) == IF ps = <<>> THEN <<>> ELSE Head(ps) \o Concat(Tail(ps))

ConcatsOf(lib, n) ==
  {Concat(ps) : ps \in UNION {[1..m -> lib] : m \in 1..n}}

\* The parts of a "!" error with its marker, the two line ending characters
\* and a zero-width space.
InvisiblePieces ==
  { <<"!", " ", "a">>,
    <<"l", ".", "5">>,
    <<"\n">>,
    <<"\r">>,
    <<"U+200B">> }

InvisibleTexts == ConcatsOf(InvisiblePieces, MaxPieces)

InitInvisible == FirstCall({Str(t) : t \in InvisibleTexts})

SpecInvisible == InitInvisible /\ [][NextLog]_vars

HasInvisible(s) == \E i \in 1..Len(s) : s[i] \in InvisibleChars

\* The text is the text without its invisible characters with such
\* characters inserted: parseAll returns for both the same.
SameAsWithoutInvisible ==
  result = ParseAllCall(Str(StripInvisible(logText.chars)), FreshCursors).value

\* No message and no fullText of the result holds an invisible character.
NoInvisibleInRecords ==
  \A i \in 1..Len(result) :
    ~HasInvisible(result[i].message) /\ ~HasInvisible(result[i].fullText)

\* C11: invisible characters inserted anywhere into a text do not change
\* what parseAll returns, and no message or fullText of a record holds one.
C11_InvisibleIgnored ==
  ParseAllReturned => (SameAsWithoutInvisible /\ NoInvisibleInRecords)

\* An invisible character stands between a CR and the LF after it.
SplitsCRLF(s) ==
  \E i, j \in 1..Len(s) :
    /\ i + 1 < j
    /\ s[i] = "\r"
    /\ s[j] = "\n"
    /\ \A h \in (i + 1)..(j - 1) : s[h] \in InvisibleChars

\* What holds of the code: the insertions are ignored unless one of them
\* separates a CR from its LF, and the records hold no invisible character.
InvisibleIgnoredOutsideCRLF ==
  ParseAllReturned =>
    /\ NoInvisibleInRecords
    /\ ~SplitsCRLF(logText.chars) => SameAsWithoutInvisible

\* parseAll found the error in a text with invisible characters inside the
\* "!" line and the marker.
InvisibleStripped ==
  /\ ParseAllReturned
  /\ HasInvisible(logText.chars)
  /\ ~SplitsCRLF(logText.chars)
  /\ Len(result) = 1
  /\ result[1].line = 5


-----------------------------------------------------------------------------
(* Rule 1: a "!" line and a later l.N marker.                              *)

MaxBangLines == 3

\* A "!" line, one with a marker of its own, a diagnostic line, a marker
\* line with text after the digits, and a line that holds a marker inside.
BangFragments ==
  { <<"!", " ", "a">>,
    <<"!", " ", "b", " ", "l", ".", "3">>,
    <<"d">>,
    <<"l", ".", "1", "2", " ", "c">>,
    <<"x", "l", ".", "7">> }

BangTexts == TextsOf(BangFragments, MaxBangLines)

InitBang == FirstCall({Str(t) : t \in BangTexts})

SpecBang == InitBang /\ [][NextLog]_vars

\* The records of the last call's result.
Records ==
  IF called = "parse" /\ result # NullResult THEN {result}
  ELSE IF called = "parseAll" THEN Elements(result)
  ELSE {}

\* The record comes from rule 1: only its matches start with "!" and end
\* with digits.
FromGenericBang(r) == r.fullText[1] = "!" /\ r.line # Null

\* The length of the run of digits that ends s.
RECURSIVE TrailingDigits(_)
TrailingDigits(s) ==
  IF s # <<>> /\ s[Len(s)] \in Digits
  THEN 1 + TrailingDigits(SubSeq(s, 1, Len(s) - 1)) ELSE 0

\* The digits of the marker that ends a rule-1 match.
MarkerDigits(fullText) ==
  SubSeq(fullText, Len(fullText) - TrailingDigits(fullText) + 1, Len(fullText))

\* The text between the "!" and the marker "l.<digits>" of a rule-1 match.
BetweenBangAndMarker(fullText) ==
  SubSeq(fullText, 2, Len(fullText) - TrailingDigits(fullText) - 2)

\* s up to its first line feed.
RECURSIVE FirstLine(_)
FirstLine(s) ==
  IF s = <<>> \/ Head(s) = "\n" THEN <<>>
  ELSE <<Head(s)>> \o FirstLine(Tail(s))

\* The match ends with the marker: "l.", then digits.
EndsWithMarker(fullText) ==
  LET n == Len(fullText) - TrailingDigits(fullText)
  IN TrailingDigits(fullText) >= 1 /\ n >= 3
     /\ fullText[n - 1] = "l" /\ fullText[n] = "."

-----------------------------------------------------------------------------
(* Rule 2: file:line diagnostics.                                          *)

MaxFileLines == 3

MainTexPath == <<".", "/", "m", "a", "i", "n", ".", "t", "e", "x">>

UndefinedControlSequence ==
  <<"U", "n", "d", "e", "f", "i", "n", "e", "d", " ", "c", "o", "n", "t",
    "r", "o", "l", " ", "s", "e", "q", "u", "e", "n", "c", "e", ".">>

\* ./main.tex:42: Undefined control sequence.
MainTexLine == MainTexPath \o <<":", "4", "2", ":", " ">> \o UndefinedControlSequence

\* The line of the test, a short diagnostic, one with nothing after the
\* second colon, a line that is a path only and a line of other text.
FileFragments ==
  { MainTexLine,
    <<".", "/", "f", ":", "1", ":", " ", "c">>,
    <<".", "/", "f", ":", "2", ":", " ">>,
    <<".", "/", "a">>,
    <<"f", "o", "o">> }

FileTexts == TextsOf(FileFragments, MaxFileLines)

InitFile == FirstCall({Str(t) : t \in FileTexts})

SpecFile == InitFile /\ [][NextLog]_vars

\* The lines of text: the stretches between line feeds.
LinesOf(text) ==
  {SubSeq(text, a, b) :
     <<a, b>> \in {p \in (1..(Len(text) + 1)) \X (0..Len(text)) :
                      /\ p[1] <= p[2] + 1
                      /\ (p[1] = 1 \/ text[p[1] - 1] = "\n")
                      /\ (p[2] = Len(text) \/ text[p[2] + 1] = "\n")
                      /\ \A i \in p[1]..p[2] : text[i] # "\n"}}

\* The record comes from rule 2: only its records have a file.
FromFileLine(r) == "file" \in DOMAIN r

\* r is what the line says: the line is <path>:<digits>:<rest>, r.file the
\* path, r.line the value of the digits and r.message the rest.
SaysFileLine(ln, r) ==
  \E i, j \in 1..Len(ln) :
    /\ i + 1 < j
    /\ ln[i] = ":" /\ ln[j] = ":"
    /\ \A h \in 1..(i - 1) : ln[h] # ":"
    /\ \A h \in (i + 1)..(j - 1) : ln[h] \in Digits
    /\ r.file = Trim(SubSeq(ln, 1, i - 1))
    /\ r.line = ParseInt(SubSeq(ln, i + 1, j - 1))
    /\ r.message = Trim(SubSeq(ln, j + 1, Len(ln)))

\* C13: a rule-2 record has the path, the digits and the message of one line
\* of the form <path>:<digits>: <message>; and for the line
\* ./main.tex:42: Undefined control sequence. followed by another line parse
\* returns file ./main.tex, line 42 and message Undefined control sequence.
C13_FileLineFromOneLine ==
  /\ \A r \in Records :
       FromFileLine(r) => \E ln \in LinesOf(ScannedText) : SaysFileLine(ln, r)
  /\ (ParseReturned /\ logText.chars = MainTexLine \o <<"\n", "f", "o", "o">>) =>
       /\ result # NullResult
       /\ FromFileLine(result)
       /\ result.file = MainTexPath
       /\ result.line = 42
       /\ result.message = UndefinedControlSequence

\* What holds of the code for the test's input.
MainTexLineParsed ==
  (ParseReturned /\ logText.chars = MainTexLine \o <<"\n", "f", "o", "o">>) =>
    /\ result # NullResult
    /\ FromFileLine(result)
    /\ result.file = MainTexPath
    /\ result.line = 42
    /\ result.message = UndefinedControlSequence
    /\ result.fullText = MainTexLine


\* parse returned a rule-2 record whose file runs over two lines: a line
\* that is a path only, and the path of the diagnostic on the next line.
FileSpansLines ==
  /\ ParseReturned
  /\ result # NullResult
  /\ FromFileLine(result)
  /\ result.message = <<"c">>
  /\ \E i \in 1..Len(result.file) : result.file[i] = "\n"


-----------------------------------------------------------------------------
(* Rule 3: LaTeX Error: ... on input line N.                               *)

MaxLatexLines == 2

\* LaTeX Error: <message> on input line <digits>.
Phrase(message, digits) ==
  LatexErrorLit \o <<" ">> \o message \o <<" ">> \o OnInputLineLit
    \o <<" ">> \o digits \o <<".">>

\* The messages and line numbers of the phrases in the logs.
Phrases == {<<(<<"d">>), (<<"3">>)>>, <<(<<"e", ",", " ", "f">>), (<<"1", "2">>)>>}

\* The phrase as a line and after "! ", a rule-1 error, a file:line
\* diagnostic and a line of other text.
LatexFragments ==
  { Phrase(<<"d">>, <<"3">>),
    Phrase(<<"e", ",", " ", "f">>, <<"1", "2">>),
    <<"!", " ">> \o Phrase(<<"d">>, <<"3">>),
    <<"!", " ", "b", " ", "l", ".", "1">>,
    <<".", "/", "f", ":", "1", ":", " ", "c">>,
    <<"o", "k">> }

LatexTexts == TextsOf(LatexFragments, MaxLatexLines)

InitLatex == FirstCall({Str(t) : t \in LatexTexts})

SpecLatex == InitLatex /\ [][NextLog]_vars

\* s stands in text at the 1-based position p.
StandsAt(text, p, s) ==
  p + Len(s) - 1 <= Len(text) /\ SubSeq(text, p, p + Len(s) - 1) = s

\* The positions at which a phrase stands in text, anywhere or at the start
\* of a line only.
PhrasePositions(text, lineStartOnly) ==
  {p \in 1..Len(text) :
     /\ \E ph \in Phrases : StandsAt(text, p, Phrase(ph[1], ph[2]))
     /\ lineStartOnly => (p = 1 \/ text[p - 1] = "\n")}

\* The phrase that stands at p.
PhraseAt(text, p) ==
  CHOOSE ph \in Phrases : StandsAt(text, p, Phrase(ph[1], ph[2]))

\* The last call ran on a text in which rules 1 and 2 do not match.
NoBangNoFileLine ==
  /\ called \in {"parse", "parseAll"}
  /\ ~Falsy(logText)
  /\ ~MatchesAnywhere(1, ScannedText)
  /\ ~MatchesAnywhere(2, ScannedText)

\* r has the message and the line of the phrase ph.
SaysPhrase(r, ph) == r.message = ph[1] /\ r.line = ParseInt(ph[2])

\* parse returned the record of the first of the phrases at the positions
\* ps, and parseAll a record of each of them.
PhrasesReported(ps) ==
  IF called = "parse"
  THEN /\ result # NullResult
       /\ SaysPhrase(result, PhraseAt(ScannedText, Least(ps)))
       /\ ~FromFileLine(result)
  ELSE \A p \in ps :
         \E r \in Elements(result) : SaysPhrase(r, PhraseAt(ScannedText, p))

-----------------------------------------------------------------------------
(* Rule 4: Runaway argument.                                               *)

\* The message the test "should parse Runaway argument error" expects.
TestRunawayMessage ==
  <<"R", "u", "n", "a", "w", "a", "y", " ", "a", "r", "g", "u", "m", "e",
    "n", "t", " ", "(", "u", "n", "c", "l", "o", "s", "e", "d", " ", "b",
    "r", "a", "c", "e", "?", ")">>

LineStart(text, p) == p = 1 \/ text[p - 1] = "\n"

\* A line of text starts with Runaway argument? and a later line with "!".
RunawayThenBang(text) ==
  \E p, q \in 1..Len(text) :
    /\ p < q
    /\ LineStart(text, p) /\ StandsAt(text, p, RunawayLit)
    /\ LineStart(text, q) /\ text[q] = "!"

\* parse ran on a log with Runaway argument? and a later "!" line in which
\* rules 1 to 3 do not match.
RunawayLogParsed ==
  /\ ParseReturned
  /\ RunawayThenBang(ParseText)
  /\ \A k \in 1..3 : ~MatchesAnywhere(k, ParseText)

\* C15: for a log with Runaway argument? and a later line starting with "!",
\* without a match of rules 1 to 3, parse returns a record with a null line
\* and the message Runaway argument (unclosed brace?).
C15_RunawayTestMessage ==
  RunawayLogParsed =>
    /\ result # NullResult
    /\ result.line = Null
    /\ result.message = TestRunawayMessage

\* What the code returns for such a log: a null line, the message of
\* patterns[3] and the text from Runaway argument? to the end of the first
\* line with a "!".
RunawayReported ==
  RunawayLogParsed =>
    /\ result # NullResult
    /\ result.line = Null
    /\ result.message = RunawayMessage
    /\ StandsAt(result.fullText, 1, RunawayLit)

RunawayLogReached == RunawayLogParsed /\ result # NullResult


-----------------------------------------------------------------------------
(* The records' fields.                                                    *)

\* The record comes from rule 5: only its matches start with "!" and end
\* with the full stop of Emergency stop.
FromEmergencyStop(r) ==
  r.fullText[1] = "!" /\ r.fullText[Len(r.fullText)] = "."

\* The record comes from rule 4: only its matches start with "R".
FromRunawayArgument(r) == r.fullText[1] = "R"

BangSpan(r) == r.fullText[1] = "!" /\ EndsWithMarker(r.fullText)

\* C17: the record parse returns for a "!" error followed by l.N has exactly
\* the fields message, line and fullText, the fullText running from the "!"
\* through l.N; the record for a ./file:N: msg line has exactly the fields
\* message, line, file and fullText, the fullText being that whole line.
C17_ExactFields ==
  (ParseReturned /\ result # NullResult) =>
    /\ FromGenericBang(result) =>
         /\ DOMAIN result = {"message", "line", "fullText"}
         /\ BangSpan(result)
    /\ FromFileLine(result) =>
         /\ DOMAIN result = {"message", "line", "file", "fullText"}
         /\ result.fullText \in LinesOf(ParseText)

\* The fields of the records as the code builds them: the three or four of
\* the tests and type.
FieldsWithType ==
  (ParseReturned /\ result # NullResult) =>
    /\ FromGenericBang(result) =>
         /\ DOMAIN result = {"message", "line", "fullText", "type"}
         /\ BangSpan(result)
    /\ FromFileLine(result) =>
         DOMAIN result = {"message", "line", "file", "fullText", "type"}

\* parse returned a rule-2 record whose fullText is the line it came from.
FileLineWholeLine ==
  /\ ParseReturned
  /\ result # NullResult
  /\ FromFileLine(result)
  /\ result.fullText \in LinesOf(ParseText)


-----------------------------------------------------------------------------
(* Where a record's line comes from.                                       *)

\* A run of digits stands in text at a..b after "l.", after ":" or after
\* "on input line" and white space.
MarkerAt(text, a, b) ==
  /\ a <= b
  /\ \A i \in a..b : text[i] \in Digits
  /\ \/ a > 2 /\ text[a - 2] = "l" /\ text[a - 1] = "."
     \/ a > 1 /\ text[a - 1] = ":"
     \/ \E p \in 1..a :
          /\ StandsAt(text, p, OnInputLineLit)
          /\ p + Len(OnInputLineLit) < a
          /\ \A i \in (p + Len(OnInputLineLit))..(a - 1) : text[i] \in WhiteSpace

\* C18: parse returns a record with a line only if it comes from rule 1, 2
\* or 3 and the line is the value of the digits of a marker in the text; a
\* record of the Runaway argument or the Emergency stop rule has a null line.
C18_LineOnlyFromMarker ==
  (ParseReturned /\ result # NullResult) =>
    /\ result.line # Null =>
         /\ \E k \in 1..3 :
              /\ FirstMatchValid(k, ParseText)
              /\ result = Extract(k, ParseText, FirstMatch(k, ParseText))
         /\ \E a, b \in 1..Len(ParseText) :
              /\ MarkerAt(ParseText, a, b)
              /\ result.line = ParseInt(SubSeq(ParseText, a, b))
    /\ (FromRunawayArgument(result) \/ FromEmergencyStop(result)) =>
         result.line = Null

\* C18 witness: parse returned the Emergency stop record, without a line,
\* for a text that holds a marker l.2 on the line before.
C18_Witness ==
  /\ ParseReturned
  /\ result # NullResult
  /\ FromEmergencyStop(result)
  /\ result.line = Null
  /\ \E a, b \in 1..Len(ParseText) : MarkerAt(ParseText, a, b)


\* C20: the line of every record parse and parseAll return is null or an
\* integer that is at least 1.
C20_LineAtLeastOne ==
  \A r \in Records : r.line = Null \/ r.line >= 1

\* What holds of the code: the line is null or the value of a run of
\* digits, which may be 0.
LineNullOrNatural ==
  \A r \in Records : r.line = Null \/ r.line >= 0

\* parseAll returned a record with line 0.
LineZeroReturned ==
  /\ ParseAllReturned
  /\ \E r \in Records : r.line = 0 /\ r.message = <<"a">>


-----------------------------------------------------------------------------
(* Exceptions.  parse and parseAll hold no try statement: an exception     *)
(* raised by pattern.extract(match) leaves the loop and the call.          *)

MaxThrowLines == 2

\* What a call leaves to its caller when an exception leaves it.
Thrown == [thrown |-> TRUE]

\* The for loop of parse on a parser whose rules in bad have an extract
\* that throws.
RECURSIVE ParseFromThrowing(_, _, _, _, _)
ParseFromThrowing(k, cleanText, li, n, bad) ==
  IF k > NumPatterns THEN [value |-> NullResult, lastIndex |-> li, execs |-> n]
  ELSE LET start == ResetLastIndex(li, k)
           match == RegexExec(patterns[k], cleanText, start[k])
           after == [start EXCEPT ![k] = LastIndexAfter(match)]
       IN IF match.ok /\ k \in bad
          THEN [value |-> Thrown, lastIndex |-> after, execs |-> n + 1]
          ELSE IF match.ok /\ ValidMessage(Extract(k, cleanText, match).message)
          THEN [value     |-> Extract(k, cleanText, match),
                lastIndex |-> after,
                execs     |-> n + 1]
          ELSE ParseFromThrowing(k + 1, cleanText, after, n + 1, bad)

\* The while loop of parseAll for the k-th pattern on such a parser.
RECURSIVE ScanPatternThrowing(_, _, _, _, _, _, _)
ScanPatternThrowing(k, cleanText, li, errors, seen, n, bad) ==
  LET match == RegexExec(patterns[k], cleanText, li[k])
      after == [li EXCEPT ![k] = LastIndexAfter(match)]
  IN IF ~match.ok
     THEN [errors |-> errors, seen |-> seen, lastIndex |-> after,
           execs |-> n + 1, thrown |-> FALSE]
     ELSE IF k \in bad
     THEN [errors |-> errors, seen |-> seen, lastIndex |-> after,
           execs |-> n + 1, thrown |-> TRUE]
     ELSE LET error == Extract(k, cleanText, match)
              fresh == ValidMessage(error.message)
                       /\ DedupKey(error) \notin seen
          IN ScanPatternThrowing(k, cleanText, after,
                                 IF fresh THEN Append(errors, error) ELSE errors,
                                 IF fresh THEN seen \cup {DedupKey(error)} ELSE seen,
                                 n + 1, bad)

\* The for loop of parseAll on such a parser.
RECURSIVE ScanFromThrowing(_, _, _, _, _, _, _)
ScanFromThrowing(k, cleanText, li, errors, seen, n, bad) ==
  IF k > NumPatterns
  THEN [errors |-> errors, seen |-> seen, lastIndex |-> li, execs |-> n,
        thrown |-> FALSE]
  ELSE LET r == ScanPatternThrowing(k, cleanText, ResetLastIndex(li, k),
                                    errors, seen, n, bad)
       IN IF r.thrown THEN r
          ELSE ScanFromThrowing(k + 1, cleanText, r.lastIndex, r.errors,
                                r.seen, r.execs, bad)

ParseCallThrowing(arg, li, bad) ==
  IF Falsy(arg) THEN [value |-> NullResult, lastIndex |-> li, execs |-> 0]
  ELSE ParseFromThrowing(1, ReplaceCRLF(arg.chars), li, 0, bad)

ParseAllCallThrowing(arg, li, bad) ==
  IF Falsy(arg) THEN [value |-> <<>>, lastIndex |-> li, execs |-> 0]
  ELSE LET r == ScanFromThrowing(1, CleanAll(arg.chars), li, <<>>, {}, 0, bad)
       IN [value |-> IF r.thrown THEN Thrown ELSE SortErrors(r.errors),
           lastIndex |-> r.lastIndex, execs |-> r.execs]

\* parser.parse(logText) on a parser with the broken rules.
ParseThrowing ==
  /\ called = "none"
  /\ \E r \in {ParseCallThrowing(logText, lastIndex, broken)} :
       /\ lastIndex' = r.lastIndex
       /\ result' = r.value
       /\ execs' = r.execs
  /\ called' = "parse"
  /\ entryIndex' = lastIndex
  /\ UNCHANGED <<logText, broken, apiVars, editorVars>>

\* parser.parseAll(logText) on a parser with the broken rules.
ParseAllThrowing ==
  /\ called = "none"
  /\ \E r \in {ParseAllCallThrowing(logText, lastIndex, broken)} :
       /\ lastIndex' = r.lastIndex
       /\ result' = r.value
       /\ execs' = r.execs
  /\ called' = "parseAll"
  /\ entryIndex' = lastIndex
  /\ UNCHANGED <<logText, broken, apiVars, editorVars>>

ThrowFragments ==
  { <<"!", " ", "b", " ", "l", ".", "1">>,
    <<".", "/", "f", ":", "2", ":", " ", "c">>,
    RunawayLit,
    <<"!", " ">> \o EmergencyLit }

ThrowTexts == TextsOf(ThrowFragments, MaxThrowLines)

\* A parser none or one of whose rules has an extract that throws, about
\* to be called on a text.
InitThrow ==
  /\ lastIndex = FreshCursors
  /\ called = "none"
  /\ logText \in {Str(t) : t \in ThrowTexts}
  /\ result = NullResult
  /\ execs = 0
  /\ entryIndex = FreshCursors
  /\ NoRequests
  /\ NoEditor
  /\ broken \in {{}} \cup {{k} : k \in 1..NumPatterns}

NextThrow == ParseThrowing \/ ParseAllThrowing

SpecThrow == InitThrow /\ [][NextThrow]_vars


ExceptionsPropagate ==
  called \in {"parse", "parseAll"} =>
    /\ broken = {} => result = FreshResult
    /\ \A k \in broken :
         FirstMatch(k, ScannedText).ok =>
           \/ result = Thrown
           \/ /\ called = "parse"
              /\ \E j \in 1..(k - 1) : FirstMatchValid(j, ScannedText)

\* parse threw although a rule after the broken one has a match to report.
ThrownPastValidRule ==
  /\ called = "parse"
  /\ result = Thrown
  /\ ValidRules(ParseText) \ broken # {}


-----------------------------------------------------------------------------
(* ApiClient (src/extension/content/services/ApiClient.js).                *)
(*                                                                         *)
(* cache is this.cache, a Map written as its set of entries.  calls is     *)
(* the explainError calls in the order they were made; each holds its      *)
(* errorData, where it stands (at: "fetch" awaiting fetch, "json"          *)
(* awaiting response.json(), "hit", "ok" or "failed" once it returned      *)
(* through the cache, the response or the catch block) and the value its   *)
(* promise resolved to.  fetched counts the calls of fetch.  cachedFor     *)
(* remembers, for each cache entry, the errorData of the call that wrote   *)
(* it.                                                                     *)

\* A parser nobody calls.
IdleParser ==
  /\ lastIndex = FreshCursors
  /\ called = "none"
  /\ logText = JsNull
  /\ result = NullResult
  /\ execs = 0
  /\ entryIndex = FreshCursors
  /\ broken = {}

MaxCalls == 2

\* `${errorData.message}:${errorData.lineContent}`
CacheKey(errorData) ==
  errorData.message \o <<":">> \o errorData.lineContent

\* this.cache.has(cacheKey)
CacheHas(map, key) == \E e \in map : e.key = key

\* this.cache.get(cacheKey), for a key the map has
CacheGet(map, key) == (CHOOSE e \in map : e.key = key).value

\* A write that keeps the entry a key already has.
CacheSetIfAbsent(map, key, value) ==
  IF CacheHas(map, key) THEN map
  ELSE map \cup {[key |-> key, value |-> value]}

\* this.cache.set(cacheKey, result)
CacheSet(map, key, value) ==
  {e \in map : e.key # key} \cup {[key |-> key, value |-> value]}

\* A catch block that forgets the caller's line.
FallbackWithoutLine(errorData) ==
  [explanation |-> "Could not connect to AI service.",
   fix |-> "Check if the backend is running.",
   fixed_code |-> <<>>]

\* The object the catch block returns.
Fallback(errorData) ==
  [explanation |-> "Could not connect to AI service.",
   fix |-> "Check if the backend is running.",
   fixed_code |-> errorData.lineContent]

\* The value of a promise that has not resolved.
Pending == [pending |-> TRUE]

\* explainError(errorData) up to its first await: a cache hit returns the
\* entry, a miss calls fetch and waits for it.
ExplainError(errorData) ==
  /\ Len(calls) < MaxCalls
  /\ LET key == CacheKey(errorData)
     IN IF CacheHas(cache, key)
        THEN /\ calls' = Append(calls, [errorData |-> errorData, at |-> "hit",
                                        value |-> CacheGet(cache, key)])
             /\ fetched' = fetched
        ELSE /\ calls' = Append(calls, [errorData |-> errorData, at |-> "fetch",
                                        value |-> Pending])
             /\ fetched' = fetched + 1
  /\ UNCHANGED <<cache, cachedFor, parserVars, editorVars>>

\* What the awaited fetch can do.
FetchOutcomes == {"ok", "notOk", "throws"}

\* The awaited fetch settles for call c: a response that is ok goes on to
\* response.json(); one that is not ok, or a rejection, ends in the catch.
FetchSettles(c, outcome) ==
  /\ c \in 1..Len(calls)
  /\ calls[c].at = "fetch"
  /\ calls' = [calls EXCEPT ![c] =
       IF outcome = "ok" THEN [@ EXCEPT !.at = "json"]
       ELSE [@ EXCEPT !.at = "failed", !.value = Fallback(calls[c].errorData)]]
  /\ UNCHANGED <<cache, cachedFor, fetched, parserVars, editorVars>>

\* The awaited response.json() resolves to body for call c: the call
\* caches the body under its key and returns it.
JsonResolves(c, body) ==
  /\ c \in 1..Len(calls)
  /\ calls[c].at = "json"
  /\ LET key == CacheKey(calls[c].errorData)
     IN /\ cache' = CacheSet(cache, key, body)
        /\ cachedFor' = CacheSet(cachedFor, key, calls[c].errorData)
  /\ calls' = [calls EXCEPT ![c] = [@ EXCEPT !.at = "ok", !.value = body]]
  /\ UNCHANGED <<fetched, parserVars, editorVars>>

\* The awaited response.json() rejects for call c (a body that is not
\* JSON): the call ends in the catch.
JsonRejects(c) ==
  /\ c \in 1..Len(calls)
  /\ calls[c].at = "json"
  /\ calls' = [calls EXCEPT ![c] =
       [@ EXCEPT !.at = "failed", !.value = Fallback(calls[c].errorData)]]
  /\ UNCHANGED <<cache, cachedFor, fetched, parserVars, editorVars>>

\* clearCache()
ClearCache ==
  /\ cache # {}
  /\ cache' = {}
  /\ cachedFor' = {}
  /\ UNCHANGED <<calls, fetched, parserVars, editorVars>>

\* The message and the line content of an error: text that may hold ":".
ErrorFields == { <<"a">>, <<"a", ":", "a">> }

ErrorData == [message : ErrorFields, lineContent : ErrorFields]

\* The bodies the backend answers with.
Bodies ==
  { [explanation |-> "e1", fix |-> "f1", fixed_code |-> <<"x">>],
    [explanation |-> "e2", fix |-> "f2", fixed_code |-> <<"y">>] }

InitApi == IdleParser /\ NoRequests /\ NoEditor

NextApi ==
  \/ \E errorData \in ErrorData : ExplainError(errorData)
  \/ \E c \in 1..MaxCalls, outcome \in FetchOutcomes : FetchSettles(c, outcome)
  \/ \E c \in 1..MaxCalls, body \in Bodies : JsonResolves(c, body)
  \/ \E c \in 1..MaxCalls : JsonRejects(c)
  \/ ClearCache

SpecApi == InitApi /\ [][NextApi]_vars


-----------------------------------------------------------------------------
(* Properties of explainError.                                             *)

\* The step starts a call; Started is that call after the step.
Starts == Len(calls') = Len(calls) + 1

Started == calls'[Len(calls')]

\* The calls that wait on one of the two awaits.
InFlight == {c \in 1..Len(calls) : calls[c].at \in {"fetch", "json"}}

\* The cache holds an entry written by a call made with errorData.
CachedBy(errorData) ==
  \E e \in cachedFor : e.key = CacheKey(errorData) /\ e.value = errorData

AnsweredByKey ==
  [][Starts =>
       (Started.at = "hit" <=> CacheHas(cache, CacheKey(Started.errorData)))]_vars

\* Two calls whose pairs differ and whose keys are equal, the later one
\* answered from the cache.
AnsweredFromOtherPair ==
  \E c, d \in 1..Len(calls) :
    /\ c < d
    /\ calls[c].errorData # calls[d].errorData
    /\ CacheKey(calls[c].errorData) = CacheKey(calls[d].errorData)
    /\ calls[c].at = "ok"
    /\ calls[d].at = "hit"
    /\ fetched = 1

\* Call c has just ended in the catch block.
Fails(c) ==
  /\ c \in InFlight
  /\ calls'[c].at = "failed"

\* C22: a call whose fetch throws, whose response is not ok or whose body
\* cannot be read does not reject: it resolves to the fallback object with
\* the caller's lineContent as fixed_code, and it leaves the cache as it
\* was; a call made with the same data while the cache still has no entry
\* for it calls fetch again.
C22_FailureFallsBack ==
  [][/\ \A c \in 1..Len(calls) :
          Fails(c) =>
            /\ calls'[c].value =
                 [explanation |-> "Could not connect to AI service.",
                  fix |-> "Check if the backend is running.",
                  fixed_code |-> calls[c].errorData.lineContent]
            /\ cache' = cache
     /\ Starts =>
          \A c \in 1..Len(calls) :
            /\ calls[c].at = "failed"
            /\ calls[c].errorData = Started.errorData
            /\ ~CacheHas(cache, CacheKey(Started.errorData))
            => Started.at = "fetch" /\ fetched' = fetched + 1]_vars

\* A call failed, nothing got cached, and the call made next with the same
\* data has called fetch too.
C22_Witness ==
  \E c \in 1..Len(calls) :
    /\ c + 1 \in 1..Len(calls)
    /\ calls[c].at = "failed"
    /\ calls[c + 1].errorData = calls[c].errorData
    /\ calls[c + 1].at = "fetch"
    /\ cache = {}
    /\ fetched = 2

\* C30: two calls for one pair that overlap both miss the cache and both
\* call fetch: a call made while an earlier call for the same pair waits
\* on an await, the cache holding no entry for the pair, calls fetch.
\* The check of the cache and its write are separate steps: whenever a
\* call's response.json() resolves, the entry of its key becomes that
\* call's result, whatever an overlapping call stored before, so the
\* entry that stays is the result of the call that resolved last.
C30_LastResolverWins ==
  [][/\ Starts =>
          \A c \in InFlight :
            /\ calls[c].errorData = Started.errorData
            /\ ~CacheHas(cache, CacheKey(Started.errorData))
            => Started.at = "fetch" /\ fetched' = fetched + 1
     /\ \A c \in 1..Len(calls) :
          calls[c].at = "json" /\ calls'[c].at = "ok" =>
            CacheGet(cache', CacheKey(calls[c].errorData)) = calls'[c].value]_vars

\* Two calls for one pair both went to the backend and got different
\* bodies; the cache holds one of them.
C30_Witness ==
  \E c, d \in 1..Len(calls) :
    /\ c # d
    /\ calls[c].errorData = calls[d].errorData
    /\ calls[c].at = "ok"
    /\ calls[d].at = "ok"
    /\ calls[c].value # calls[d].value
    /\ fetched = 2
    /\ cache = {[key |-> CacheKey(calls[d].errorData), value |-> calls[d].value]}


-----------------------------------------------------------------------------
(* EditorController.getContext                                             *)
(* (src/extension/content/controllers/EditorController.js) and             *)
(* ErrorOverlayManager.                                                    *)
(*                                                                         *)
(* content is what getContent() returns (null when no editor is found);    *)
(* contextArgs and context are the arguments and the result of the last    *)
(* getContext call.  lineElements is the list of the '.cm-line, .ace_line' *)
(* elements in document order, each with its 'el-error-line' class and     *)
(* the texts of its '.el-error-tooltip' children; activeErrorLine is the   *)
(* overlay manager's field and shown the last call made on the manager.    *)

MaxDocLines == 3

MaxRadius == 1

MaxDomLines == 2

\* getContext(lineNumber, radius = 5)
DefaultRadius == 5

MathMax(a, b) == IF a >= b THEN a ELSE b

MathMin(a, b) == IF a <= b THEN a ELSE b

\* String.prototype.split with a one-character separator.
RECURSIVE Split(_, _)
Split(chars, sep) ==
  IF \E i \in 1..Len(chars) : chars[i] = sep
  THEN LET i == Least({j \in 1..Len(chars) : chars[j] = sep})
       IN <<SubSeq(chars, 1, i - 1)>> \o
          Split(SubSeq(chars, i + 1, Len(chars)), sep)
  ELSE <<chars>>

\* String.prototype.includes
Includes(chars, s) == \E p \in 1..(Len(chars) + 1) : StandsAt(chars, p, s)

\* Array.prototype.slice(start, end): a negative index counts from the
\* end of the array, and both are clamped to 0..length.
RelativeIndex(len, k) ==
  IF k < 0 THEN MathMax(len + k, 0) ELSE MathMin(k, len)

Slice(array, start, end) ==
  SubSeq(array, RelativeIndex(Len(array), start) + 1,
                RelativeIndex(Len(array), end))

BeginDocumentLit ==
  <<"\\", "b", "e", "g", "i", "n", "{", "d", "o", "c", "u", "m", "e", "n",
    "t", "}">>

\* The loop of lines 74-80: the 0-based index of the first line that
\* holds \begin{document}, 0 when none does.
PreambleEnd(lines) ==
  LET hits == {i \in 1..Len(lines) : Includes(lines[i], BeginDocumentLit)}
  IN IF hits = {} THEN 0 ELSE Least(hits) - 1

\* A context window that starts radius lines before the target without
\* stopping at the first line.
ContextStartUnclamped(targetIndex, radius) == targetIndex - radius

\* Math.max(0, targetIndex - radius)
ContextStart(targetIndex, radius) == MathMax(0, targetIndex - radius)

\* Math.min(lines.length, targetIndex + radius + 1)
ContextEnd(lines, targetIndex, radius) ==
  MathMin(Len(lines), targetIndex + radius + 1)

\* lines[targetIndex] || ''
LineContent(lines, targetIndex) ==
  IF targetIndex + 1 \in 1..Len(lines) THEN lines[targetIndex + 1] ELSE <<>>

\* getContext(lineNumber, radius) on an editor whose getContent() returns
\* fullContent.
GetContextOf(fullContent, lineNumber, radius) ==
  IF Falsy(fullContent) THEN NullResult
  ELSE LET lines == Split(fullContent.chars, "\n")
           preamble == JoinLines(Slice(lines, 0, PreambleEnd(lines) + 1))
           targetIndex == lineNumber - 1
           contextLines ==
             JoinLines(Slice(lines, ContextStart(targetIndex, radius),
                                    ContextEnd(lines, targetIndex, radius)))
       IN [preamble |-> preamble,
           contextLines |-> contextLines,
           fullContext |->
             preamble \o <<"\n", ".", ".", ".", "\n">> \o contextLines,
           lineContent |-> LineContent(lines, targetIndex)]

\* editor.getContext(lineNumber, radius)
GetContext(lineNumber, radius) ==
  /\ contextArgs' = [lineNumber |-> lineNumber, radius |-> radius]
  /\ context' = GetContextOf(content, lineNumber, radius)
  /\ UNCHANGED <<content, lineElements, activeErrorLine, shown,
                 parserVars, apiVars>>

\* A line element as the editor renders it.
PlainLine == [errorLine |-> FALSE, tooltips |-> <<>>]

\* `Error: ${message}`
TooltipText(message) == <<"E", "r", "r", "o", "r", ":", " ">> \o message

\* A clear that removes nothing.
ClearHighlightsNone(elements) == elements

\* The forEach of clear(): every element with the class loses the class
\* and its first tooltip.
ClearHighlights(elements) ==
  [i \in 1..Len(elements) |->
     IF elements[i].errorLine
     THEN [errorLine |-> FALSE,
           tooltips |-> IF elements[i].tooltips = <<>> THEN <<>>
                        ELSE Tail(elements[i].tooltips)]
     ELSE elements[i]]

\* !lineNumber, for null and for numbers
NoLineNumber(lineNumber) == lineNumber = Null \/ lineNumber = 0

\* getLineElement(lineNumber): lines[lineNumber - 1] is an element.
HasLineElement(elements, lineNumber) == lineNumber \in 1..Len(elements)

\* highlightLine(element, message)
HighlightLine(elements, lineNumber, message) ==
  [elements EXCEPT ![lineNumber] =
     [errorLine |-> TRUE,
      tooltips |-> Append(@.tooltips, TooltipText(message))]]

\* overlay.showError(lineNumber, message)
ShowError(lineNumber, message) ==
  /\ shown' = [op |-> "showError", lineNumber |-> lineNumber,
               message |-> message]
  /\ LET cleared == ClearHighlights(lineElements)
     IN IF ~NoLineNumber(lineNumber) /\ HasLineElement(cleared, lineNumber)
        THEN /\ lineElements' = HighlightLine(cleared, lineNumber, message)
             /\ activeErrorLine' = lineNumber
        ELSE /\ lineElements' = cleared
             /\ activeErrorLine' = Null
  /\ UNCHANGED <<content, contextArgs, context, parserVars, apiVars>>

\* overlay.clear()
Clear ==
  /\ shown' = [op |-> "clear"]
  /\ lineElements' = ClearHighlights(lineElements)
  /\ activeErrorLine' = Null
  /\ UNCHANGED <<content, contextArgs, context, parserVars, apiVars>>


\* Documents of up to MaxDocLines lines, the empty document, and no editor.
DocFragments == { <<"a">>, BeginDocumentLit }

Contents ==
  {JsNull, Str(<<>>)} \cup {Str(t) : t \in TextsOf(DocFragments, MaxDocLines)}

\* error.line as the error listener passes it on: a line number of the
\* log, which may lie past the end of the document.
ContextLineNumbers == 1..(MaxDocLines + 2)

Radii == 0..MaxRadius \cup {DefaultRadius}

\* The line numbers showError receives: null, 0, and numbers up to one
\* past the rendered lines.
OverlayLineNumbers == {Null} \cup 0..(MaxDomLines + 1)

Messages == { <<"m">>, <<"n">> }

InitEditor ==
  /\ IdleParser
  /\ NoRequests
  /\ content \in Contents
  /\ contextArgs = NoArgs
  /\ context = NullResult
  /\ lineElements \in UNION {[1..n -> {PlainLine}] : n \in 0..MaxDomLines}
  /\ activeErrorLine = Null
  /\ shown = NoArgs

NextEditor ==
  \/ \E lineNumber \in ContextLineNumbers, radius \in Radii :
       GetContext(lineNumber, radius)
  \/ \E lineNumber \in OverlayLineNumbers, message \in Messages :
       ShowError(lineNumber, message)
  \/ Clear

SpecEditor == InitEditor /\ [][NextEditor]_vars

-----------------------------------------------------------------------------
(* Properties of getContext and of the overlay.                            *)

\* The lines of the document, numbered from 1.
DocumentLines == Split(content.chars, "\n")

\* Lines first..last of the document joined by line feeds; nothing when
\* first > last.
JoinedLines(first, last) == JoinLines(SubSeq(DocumentLines, first, last))

\* C23: getContext(n, r) returns null when the editor content is empty or
\* unavailable; otherwise contextLines is the document's lines
\* max(1, n - r) through min(L, n + r) joined by line feeds.
C23_ContextWindow ==
  contextArgs # NoArgs =>
    IF content = JsNull \/ content = Str(<<>>)
    THEN context = NullResult
    ELSE /\ context # NullResult
         /\ context.contextLines =
              JoinedLines(MathMax(1, contextArgs.lineNumber - contextArgs.radius),
                          MathMin(Len(DocumentLines),
                                  contextArgs.lineNumber + contextArgs.radius))

\* A window cut at both ends of a document of several lines.
C23_Witness ==
  /\ contextArgs # NoArgs
  /\ content.kind = "string"
  /\ Len(DocumentLines) >= 2
  /\ contextArgs.lineNumber - contextArgs.radius < 1
  /\ contextArgs.lineNumber + contextArgs.radius > Len(DocumentLines)
  /\ context # NullResult
  /\ context.contextLines = content.chars

\* The line elements that carry the highlight or a tooltip.
Highlighted ==
  {i \in 1..Len(lineElements) :
     lineElements[i].errorLine \/ lineElements[i].tooltips # <<>>}

\* C24: after any sequence of showError and clear calls at most one line
\* carries the highlight and the tooltip: after showError for a line that
\* exists it is that line alone, with one tooltip, the new one; after
\* showError for a line that does not exist, and after clear, it is none.
C24_AtMostOneHighlight ==
  /\ Cardinality(Highlighted) <= 1
  /\ shown # NoArgs =>
       IF shown.op = "showError" /\ shown.lineNumber \in 1..Len(lineElements)
       THEN /\ Highlighted = {shown.lineNumber}
            /\ lineElements[shown.lineNumber] =
                 [errorLine |-> TRUE,
                  tooltips |-> <<TooltipText(shown.message)>>]
       ELSE Highlighted = {}

\* showError moved the highlight: the line shown is highlighted with the
\* new message and the overlay remembers it.
C24_Witness ==
  /\ shown # NoArgs
  /\ shown.op = "showError"
  /\ shown.lineNumber = 2
  /\ shown.message = <<"n">>
  /\ activeErrorLine = 2
  /\ Highlighted = {2}


-----------------------------------------------------------------------------
(* Rule 1's lookahead: a "!" line followed by markers at chosen distances. *)

MaxMarkers == 2

\* n characters that hold no marker and start a new line.
Filler(n) == [i \in 1..n |-> IF i = 1 THEN "\n" ELSE "x"]

\* The distances tried between one marker (or the "!" line) and the next:
\* adjacent lines, the last distance inside the window, the first outside.
Distances == {1, LookaheadMax, LookaheadMax + 1}

MarkerPieces ==
  {Filler(g) \o <<"l", ".", d>> : g \in Distances, d \in {"3", "7"}}

\* A "!" line without a marker, and one that holds a marker itself.
GapBangLines ==
  { <<"!", " ", "a">>,
    <<"!", " ", "b", " ", "l", ".", "5", " ", "c">> }

GapTexts ==
  {b \o t : b \in GapBangLines, t \in ConcatsOf(MarkerPieces, MaxMarkers)}

InitGap == FirstCall({Str(t) : t \in GapTexts})

SpecGap == InitGap /\ [][NextLog]_vars

\* A marker l.<digit> begins at position p of text.
MarkerStandsAt(text, p) ==
  /\ p + 2 <= Len(text)
  /\ text[p] = "l"
  /\ text[p + 1] = "."
  /\ text[p + 2] \in Digits

\* In the span a rule-1 record matched: the length of "!", the white space
\* and the captured message, which ends where the marker or the line ends.
CapturedEnd(fullText) ==
  LET between == BetweenBangAndMarker(fullText)
  IN 1 + (Len(between) - Len(TrimStart(between)))
       + Len(FirstLine(TrimStart(between)))

\* Where the marker that gave the line number begins in the span.
MarkerStart(fullText) == Len(fullText) - TrailingDigits(fullText) - 1

\* The length of the first line of the text, the "!" line.
BangLineEnd(text) == Len(FirstLine(text))

\* The markers that begin after the "!" line.
MarkersAfterLine(text) ==
  {p \in (BangLineEnd(text) + 1)..Len(text) : MarkerStandsAt(text, p)}

\* The "!" line holds a marker itself.
MarkerInLine(text) ==
  \E p \in 1..BangLineEnd(text) : MarkerStandsAt(text, p)

MarkerOutOfReach ==
  /\ called = "parseAll"
  /\ logText.chars = <<"!", " ", "a">> \o Filler(LookaheadMax + 1) \o <<"l", ".", "3">>
  /\ result = <<>>


-----------------------------------------------------------------------------
(* Which of the matches with one key parseAll keeps.                       *)

\* The valid records of rules k.. in the order in which parseAll comes to
\* them: rule by rule, match by match, nothing left out for its key.
RECURSIVE MatchedFrom(_, _)
MatchedFrom(k, text) ==
  IF k > NumPatterns THEN <<>>
  ELSE ChainRecords(k, text) \o MatchedFrom(k + 1, text)

\* The records of seq that no earlier record of seq shares its key with.
FirstOfKey(seq) ==
  {seq[i] : i \in {i \in 1..Len(seq) :
                     \A j \in 1..(i - 1) : RecordKey(seq[j]) # RecordKey(seq[i])}}

\* C26: of the matches that have the same non-null line and the same first
\* 50 characters of message parseAll keeps only the first one it came to,
\* and of the matches with a null line the first one of every message: what
\* parseAll returns holds one record for every key, the first match of it.
C26_FirstOfKeyKept ==
  ParseAllReturned =>
    /\ Elements(result) = FirstOfKey(MatchedFrom(1, ScannedText))
    /\ Len(result) = Cardinality(FirstOfKey(MatchedFrom(1, ScannedText)))

\* parseAll returned two records with line 0 whose messages differ past the
\* 50th character only.
LineZeroKeptTwice ==
  /\ ParseAllReturned
  /\ \E i, j \in 1..Len(result) :
       /\ i # j
       /\ result[i].line = 0 /\ result[j].line = 0
       /\ MessagePrefix(result[i].message) = MessagePrefix(result[j].message)

\* What the code does: it keeps the first match of every key as it computes
\* the key, line 0 keyed like a null line.
FirstOfDedupKeyKept ==
  ParseAllReturned =>
    LET seq == MatchedFrom(1, ScannedText)
    IN Elements(result) =
         {seq[i] : i \in {i \in 1..Len(seq) :
                     \A j \in 1..(i - 1) : DedupKey(seq[j]) # DedupKey(seq[i])}}


-----------------------------------------------------------------------------
(* Matches whose message is empty.                                         *)

MaxEmptyLines == 2

\* LaTeX Error:  on input line 3.  (nothing but white space for a message)
EmptyPhrase ==
  LatexErrorLit \o <<" ", " ">> \o OnInputLineLit \o <<" ", "3", ".">>

\* For each of the three rules that take their message from the text a line
\* whose match has an empty message and a line with a message, and a line
\* without an error.
EmptyFragments ==
  { <<"!", " ", " ", "l", ".", "0">>,
    <<"!", " ", "b", " ", "l", ".", "1">>,
    <<".", "/", "f", ":", "2", ":", " ">>,
    <<".", "/", "f", ":", "1", ":", " ", "c">>,
    EmptyPhrase,
    Phrase(<<"d">>, <<"3">>),
    <<"o", "k">> }

EmptyTexts == TextsOf(EmptyFragments, MaxEmptyLines)

InitEmpty == FirstCall({Str(t) : t \in EmptyTexts})

SpecEmpty == InitEmpty /\ [][NextLog]_vars

\* The k-th rule's first match in text exists and its record has an empty
\* message.
FirstMatchEmpty(k, text) ==
  /\ FirstMatch(k, text).ok
  /\ Extract(k, text, FirstMatch(k, text)).message = <<>>

\* The records of all of the k-th rule's successive matches in text, those
\* with an empty message too.
ChainAll(k, text) ==
  LET chain == MatchChain(k, text, 0)
  IN [i \in 1..Len(chain) |-> Extract(k, text, chain[i])]

\* What parseAll returns holds a record with the key of c.
KeptByKey(c) == \E r \in Elements(result) : DedupKey(r) = DedupKey(c)

\* C27: a rule whose first match has an empty message counts for parse as a
\* rule without a match: parse returns the record of the first later rule
\* with a valid first match when no earlier rule has one, and null when no
\* rule has one.  parseAll leaves a match with an empty message out and goes
\* on: the later matches of the same rule and the matches of the later
\* rules that have a message are in what it returns.  Neither call returns a
\* record with an empty message; both return a value.
C27_EmptyMessageSkipped ==
  /\ ParseReturned =>
       /\ result # NullResult => result.message # <<>>
       /\ \A k \in 1..NumPatterns :
            (FirstMatchEmpty(k, ParseText)
              /\ \A j \in 1..(k - 1) : ~FirstMatchValid(j, ParseText))
            => LET later == {j \in ValidRules(ParseText) : j > k}
               IN IF later = {} THEN result = NullResult
                  ELSE result = Extract(Least(later), ParseText,
                                        FirstMatch(Least(later), ParseText))
  /\ ParseAllReturned =>
       /\ \A r \in Elements(result) : r.message # <<>>
       /\ \A k \in 1..NumPatterns :
            LET recs == ChainAll(k, ScannedText)
            IN \A i \in 1..Len(recs) :
                 recs[i].message = <<>> =>
                   /\ \A j \in (i + 1)..Len(recs) :
                        recs[j].message # <<>> => KeptByKey(recs[j])
                   /\ \A l \in (k + 1)..NumPatterns :
                        \A c \in Elements(ChainRecords(l, ScannedText)) :
                          KeptByKey(c)

\* C27 witness: parseAll returned the record of a match of the rule whose
\* previous match has an empty message.
C27_Witness ==
  /\ ParseAllReturned
  /\ \E k \in 1..NumPatterns :
       LET recs == ChainAll(k, ScannedText)
       IN \E i, j \in 1..Len(recs) :
            /\ i < j
            /\ recs[i].message = <<>>
            /\ recs[j].message # <<>>
            /\ recs[j] \in Elements(result)

\* parse returned the record of a rule after a rule whose first match has an
\* empty message.
ParsePassedEmptyRule ==
  /\ ParseReturned
  /\ result # NullResult
  /\ \E k \in 1..NumPatterns :
       /\ FirstMatchEmpty(k, ParseText)
       /\ \E j \in (k + 1)..NumPatterns :
            result = Extract(j, ParseText, FirstMatch(j, ParseText))


-----------------------------------------------------------------------------
(* parse and parseAll on the same text.                                    *)

\* What parse(logText) returns: what the call returned, or what a call on
\* this parser would return now.
ParseOf ==
  IF called = "parse" THEN result ELSE ParseCall(logText, lastIndex).value

\* What parseAll(logText) returns, likewise.
ParseAllOf ==
  IF called = "parseAll" THEN result
  ELSE ParseAllCall(logText, lastIndex).value

\* One of the two was called on a text without the characters that parseAll
\* alone removes.
CalledOnVisibleText ==
  /\ called \in {"parse", "parseAll"}
  /\ ~Falsy(logText)
  /\ ~HasInvisible(logText.chars)

\* Some rule's first match has an empty message and one of its later matches
\* has a message.
ValidAfterEmptyFirst(text) ==
  \E k \in 1..NumPatterns :
    /\ FirstMatchEmpty(k, text)
    /\ ChainRecords(k, text) # <<>>

\* The claim as stated: parse returns null exactly when parseAll returns
\* nothing, and the key of parse's record is the key of a record of parseAll.
C28_NullIffEmpty ==
  CalledOnVisibleText =>
    /\ ParseOf = NullResult <=> ParseAllOf = <<>>
    /\ ParseOf # NullResult =>
         \E r \in Elements(ParseAllOf) : DedupKey(r) = DedupKey(ParseOf)

\* C28: on a text without the invisible characters parse returns null
\* whenever parseAll returns nothing, and the key of the record parse
\* returns is the key of a record of parseAll; parse returns null while
\* parseAll returns records only when every rule's first match is missing or
\* has an empty message and a later match of such a rule has a message.
C28_NullIfEmpty ==
  CalledOnVisibleText =>
    /\ ParseAllOf = <<>> => ParseOf = NullResult
    /\ ParseOf # NullResult =>
         \E r \in Elements(ParseAllOf) : DedupKey(r) = DedupKey(ParseOf)
    /\ (ParseOf = NullResult /\ ParseAllOf # <<>>) =>
         /\ ValidRules(ParseText) = {}
         /\ ValidAfterEmptyFirst(ParseText)

\* C28 witness: parse returned a record of a text for which parseAll returns
\* that record and another one.
C28_Witness ==
  /\ CalledOnVisibleText
  /\ called = "parse"
  /\ result # NullResult
  /\ Len(ParseAllOf) >= 2
  /\ result \in Elements(ParseAllOf)

\* parse returned null for a text for which parseAll returns a record.
NullButNotEmpty ==
  /\ CalledOnVisibleText
  /\ called = "parse"
  /\ result = NullResult
  /\ ParseAllOf # <<>>


-----------------------------------------------------------------------------
(* Two "!" lines before one marker.                                        *)

MaxOverlapLines == 3

\* Two different "!" lines, a marker line and a line of other text.
OverlapFragments ==
  { <<"!", " ", "a">>,
    <<"!", " ", "b">>,
    <<"l", ".", "5">>,
    <<"d">> }

OverlapTexts == TextsOf(OverlapFragments, MaxOverlapLines)

InitOverlap == FirstCall({Str(t) : t \in OverlapTexts})

SpecOverlap == InitOverlap /\ [][NextLog]_vars

\* A "!" line: "!", white space and a message.
IsBangLine(l) ==
  /\ Len(l) >= 3
  /\ l[1] = "!"
  /\ l[2] \in WhiteSpace
  /\ Trim(SubSeq(l, 2, Len(l))) # <<>>

HasMarker(l) == \E p \in 1..Len(l) : MarkerStandsAt(l, p)

\* The number N of the first marker l.<N> of the line.
MarkerNumber(l) ==
  LET p == Least({q \in 1..Len(l) : MarkerStandsAt(l, q)})
  IN ParseInt(SubSeq(l, p + 2, p + 1 + RunLen("\\d", l, p + 1, NoMax)))

\* The indices of the lines of ls that satisfy Is.
LinesThat(ls, Is(_)) == {i \in 1..Len(ls) : Is(ls[i])}

\* The text has exactly two "!" lines and exactly one line with a marker,
\* which stands after both.
TwoBangsOneMarker(text) ==
  LET ls == Split(text, "\n")
  IN /\ Cardinality(LinesThat(ls, IsBangLine)) = 2
     /\ Cardinality(LinesThat(ls, HasMarker)) = 1
     /\ \A b \in LinesThat(ls, IsBangLine) :
          \A m \in LinesThat(ls, HasMarker) : b < m

\* The records of seq can be laid on text from position from on, one after
\* the end of the other, each where its fullText stands.
RECURSIVE LaidOut(_, _, _)
LaidOut(seq, text, from) ==
  \/ seq = <<>>
  \/ \E p \in from..Len(text) :
       /\ StandsAt(text, p, Head(seq).fullText)
       /\ LaidOut(Tail(seq), text, p + Len(Head(seq).fullText))

\* C29: the spans rule 1 matched for the records of parseAll lie one after
\* the other in the text, none overlapping another; and for a text with two
\* "!" lines and, after them, its only marker l.<N>, parseAll holds exactly
\* one rule-1 record, with the message of the first "!" line and the line
\* N, and none with the message of the second "!" line.
C29_MatchesDoNotOverlap ==
  ParseAllReturned =>
    /\ LaidOut(SelectSeq(Discovered, FromGenericBang), ScannedText, 1)
    /\ TwoBangsOneMarker(ScannedText) =>
         LET ls    == Split(ScannedText, "\n")
             bangs == LinesThat(ls, IsBangLine)
             first == ls[Least(bangs)]
             mark  == ls[Least(LinesThat(ls, HasMarker))]
             recs  == SelectSeq(result, FromGenericBang)
         IN /\ Len(recs) = 1
            /\ recs[1].message = Trim(SubSeq(first, 2, Len(first)))
            /\ recs[1].line = MarkerNumber(mark)

\* C29 witness: parseAll ran on a text with two different "!" lines before
\* its only marker and returned the record of the first one.
C29_Witness ==
  /\ ParseAllReturned
  /\ TwoBangsOneMarker(ScannedText)
  /\ LET ls == Split(ScannedText, "\n")
         bangs == LinesThat(ls, IsBangLine)
     IN \E i, j \in bangs : i < j /\ ls[i] # ls[j]
  /\ Len(result) = 1
  /\ result[1].line = 5

====
